---- MODULE Spec2Model ----
(***************************************************************************)
(* A model of the nexus pipeline engine: the PipelineExecutor and its      *)
(* TranslationEngine (nexus_core/executor.py, nexus_core/translator.py),   *)
(* the edge table of the persistence layer (nexus_core/database.py) and    *)
(* CapabilityGraph.build_edges (nexus_core/graph.py).                       *)
(*                                                                         *)
(* JSON data is modelled as follows.  A JSON object (a Python dict) is a   *)
(* function from field names to string values; the Python value None is    *)
(* the string None and the empty string is "".  A JSON value that is not   *)
(* an object (json.loads("42") is the int 42) is the value NonObject: on   *)
(* it `k in v`, v.get(k) and dict(v) raise, as they do on a Python int.    *)
(* An operator that models code which may raise returns a record whose     *)
(* field `raised` tells whether it raised.                                 *)
(***************************************************************************)
EXTENDS Integers, Sequences, FiniteSets, TLC

VARIABLES
    pipeline,       \* execute: pipeline.steps
    initial_input,  \* execute: the caller's initial_input
    context,        \* execute: the run context
    pc,             \* execute: position of the run
    i,              \* execute: index of the current step (1-based)
    results,        \* execute: the list of ExecutionResult
    current_data,   \* execute: current_data
    all_outputs,    \* execute: all_outputs, server name -> output
    step_input,     \* execute: the input resolved for the current step
    pending,        \* _call_tool: what the call in flight returns or raises
    specs_cache,    \* TranslationEngine.specs_cache
    sessions_open,  \* number of tool-server sessions currently open
    invocations,    \* log of the _call_tool calls: step and input
    connections,    \* log of the sessions opened: step
    oracle_asked,   \* number of ask_gemini calls made so far
    db_edges,       \* database: the rows of the edges table, in rowid order
    db_last,        \* the edge handed to the most recent save_edge call, if any
    edges,          \* CapabilityGraph.edges
    gpc,            \* build_edges: position of the build
    incremental,    \* build_edges: the incremental flag of the latest build
    build_servers,  \* build_edges: the names of the servers handed to the latest build
    candidates,     \* build_edges: the candidates still to process
    start_edges,    \* the rows stored when the latest build was called
    validated,      \* compound keys the oracle was asked about in the latest build
    builds,         \* number of build_edges calls made
    last_build,     \* how the latest finished build ended: returned or raised
    tool_keys,      \* EmbeddingIndex.tool_keys
    output_embeddings, \* EmbeddingIndex.output_embeddings
    input_embeddings,  \* EmbeddingIndex.input_embeddings
    embed,          \* the embedding oracle in use
    judged,         \* build_edges: the oracle's latest answer and the candidate it was about
    db_servers,     \* database: the names in the servers table
    registry_servers, \* Registry.servers: the names registered in memory
    unregistered,   \* the latest unregister call: its name and the edge rows before it
    user_request,   \* discover: the request, as its characters
    raw,            \* discover: the text ask_gemini answered with
    discovered,     \* discover: what the call returned, or that it raised
    asked_log,      \* generate_spec: the cache keys the oracle was asked about, in order
    returned_spec,  \* generate_spec: the latest call and what it returned
    applied,        \* apply_translation: the latest call and its result
    merge_call,     \* context merge: the latest merge and its result
    engines,        \* number of TranslationEngine objects made so far
    index_calls,    \* the index_server calls made: server and embedding oracle
    embed_log,      \* the get_embedding calls made: key and side
    found,          \* the latest find_candidates call: its arguments, the index it ran on, its result
    clock,          \* time.time(), in seconds
    last_call_time, \* config._last_call_time
    opc,            \* ask_gemini: position of the call
    attempt,        \* ask_gemini: the loop variable `attempt`
    attempts_log,   \* ask_gemini: how each attempt of the latest call ended
    requests,       \* the times of the two latest generate_content requests
    outcome,        \* how the latest finished ask_gemini call ended
    calls,          \* number of ask_gemini calls started
    engine_edges,   \* api: the edge list handed to the latest DiscoveryEngine, and the unregister call before it
    judge,          \* the reasoning oracle in use when it answers by a fixed table
    found_path      \* the latest find_path call: its arguments and its result

execVars == <<pipeline, initial_input, context, pc, i, results, current_data,
              all_outputs, step_input, pending, specs_cache, sessions_open,
              invocations, connections, oracle_asked>>
graphVars == <<db_edges, db_last, edges, gpc, incremental, build_servers,
               candidates, start_edges, validated, builds, last_build, tool_keys,
               output_embeddings, input_embeddings, embed, judged>>
vars == <<pipeline, initial_input, context, pc, i, results, current_data,
          all_outputs, step_input, pending, specs_cache, sessions_open,
          invocations, connections, oracle_asked, db_edges, db_last, edges, gpc,
          incremental, build_servers, candidates, start_edges, validated, builds,
          last_build, tool_keys, output_embeddings, input_embeddings, embed, judged,
          db_servers, registry_servers, unregistered, user_request, raw, discovered,
          asked_log, returned_spec, applied, merge_call, engines, index_calls,
          embed_log, found, clock, last_call_time, opc, attempt, attempts_log,
          requests, outcome, calls, engine_edges, judge, found_path>>
registryVars == <<db_servers, registry_servers, unregistered>>
discoveryVars == <<user_request, raw, discovered>>
translatorVars == <<asked_log, returned_spec, applied, merge_call, engines>>
indexVars == <<index_calls, embed_log, found>>
oracleVars == <<clock, last_call_time, opc, attempt, attempts_log, requests, outcome, calls>>
apiVars == <<engine_edges, judge, found_path>>
otherVars == <<indexVars, oracleVars, apiVars>>

\* what a run of the executor leaves alone
outsideExec == <<graphVars, registryVars, discoveryVars, translatorVars, otherVars>>
\* what build_edges leaves alone
outsideGraph == <<execVars, registryVars, discoveryVars, translatorVars, otherVars>>

\* no server registered, nothing discovered, nothing translated
RegistryIdle == db_servers = {} /\ registry_servers = {} /\ unregistered = << >>
DiscoveryIdle == user_request = << >> /\ raw = << >> /\ discovered = << >>
TranslatorIdle ==
    /\ asked_log = << >> /\ returned_spec = << >> /\ applied = << >> /\ merge_call = << >>
    /\ engines = 0
IndexIdle == index_calls = << >> /\ embed_log = << >> /\ found = << >>
NoOutcome == [kind |-> "none", error |-> << >>]
OracleIdle ==
    /\ clock = 0 /\ last_call_time = 0 /\ opc = "idle" /\ attempt = 0
    /\ attempts_log = << >> /\ requests = << >> /\ outcome = NoOutcome /\ calls = 0
ApiIdle == engine_edges = << >> /\ judge = "any" /\ found_path = << >>
OthersIdle == IndexIdle /\ OracleIdle /\ ApiIdle

-----------------------------------------------------------------------------
(* Bounds of the model *)

\* longest pipeline handed to execute
MaxSteps == 3

\* number of build_edges calls in one behaviour
MaxBuilds == 2

\* ask_gemini calls made by generate_spec
MaxAsks == 3

\* TranslationEngine objects made, one per PipelineExecutor
MaxEngines == 2

-----------------------------------------------------------------------------
(* Python values *)

None == "None"

EmptyDict == [k \in {} |-> ""]

NonObject == [json_number |-> "42"]

IsDict(v) == v /= NonObject

\* k in d
Has(d, k) == k \in DOMAIN d

\* d.get(k)
Get(d, k) == IF k \in DOMAIN d THEN d[k] ELSE None

\* d.get(k, default)
GetOr(d, k, default) == IF k \in DOMAIN d THEN d[k] ELSE default

\* bool(v) for a string or None
Truthy(v) == v /= None /\ v /= ""

\* d[k] = v
Put(d, k, v) == [x \in (DOMAIN d) \cup {k} |-> IF x = k THEN v ELSE d[x]]

Range(s) == {s[n] : n \in DOMAIN s}

\* the order in which json.dumps writes the fields of the model's objects
FieldOrder ==
    <<"url", "source_url", "content", "translated_text", "summary", "text",
      "result", "channel", "message_body", "success", "sentiment", "confidence",
      "explanation">>

RECURSIVE DumpItems(_, _)
DumpItems(d, keys) ==
    IF keys = << >> THEN ""
    ELSE LET k == Head(keys)
             rest == DumpItems(d, Tail(keys))
         IN  IF k \in DOMAIN d THEN k \o ":" \o d[k] \o ";" \o rest ELSE rest

\* json.dumps(v, default=str)
Dumps(v) == IF v = NonObject THEN "42" ELSE "{" \o DumpItems(v, FieldOrder) \o "}"

\* the server names in the order json.dumps(all_outputs) meets them
ServerOrder == <<"web-fetcher", "summarizer", "sentiment-analyzer", "notifier", "slack-sender">>

RECURSIVE DumpOutputs(_, _)
DumpOutputs(outs, names) ==
    IF names = << >> THEN ""
    ELSE LET n == Head(names)
             rest == DumpOutputs(outs, Tail(names))
         IN  IF n \in DOMAIN outs THEN n \o ":" \o Dumps(outs[n]) \o ";" \o rest ELSE rest

-----------------------------------------------------------------------------
(* Tool servers: models.py ToolInfo and ServerRecord *)

\* ToolInfo.input_schema defaults to {}
EmptySchema == [required |-> << >>, properties |-> {}]

ToolInfo(name, required, properties) ==
    [name |-> name, input_schema |-> [required |-> required, properties |-> properties]]

\* the servers held by the executor (self.servers); "ghost" is not among them
Servers ==
    [x \in {"summarizer", "notifier", "slack-sender", "sentiment-analyzer"} |->
        CASE x = "summarizer" ->
               [name |-> x, tools |-> <<ToolInfo("summarize_text", <<"text">>, {"text", "max_sentences"})>>]
          [] x = "notifier" ->
               [name |-> x, tools |-> <<ToolInfo("notify", <<"channel", "message_body">>, {"channel", "message_body"})>>]
          [] x = "slack-sender" ->
               [name |-> x, tools |-> <<ToolInfo("send_slack_message", <<"channel", "message_body">>, {"channel", "message_body"})>>]
          [] x = "sentiment-analyzer" ->
               [name |-> x, tools |-> <<ToolInfo("analyze_sentiment", <<"text">>, {"text"})>>]]

\* next((t for t in server.tools if t.name == tool_name), None), as the set of
\* matches in list order: empty when there is none
RECURSIVE FindTool(_, _)
FindTool(tools, tool_name) ==
    IF tools = << >> THEN << >>
    ELSE IF Head(tools).name = tool_name THEN <<Head(tools)>>
    ELSE FindTool(Tail(tools), tool_name)

\* target_tool.input_schema if target_tool else {}
TargetSchema(server, tool_name) ==
    LET t == FindTool(server.tools, tool_name)
    IN  IF t = << >> THEN EmptySchema ELSE t[1].input_schema

\* pairs <<a, b>> of the model's names where a is a proper substring of b
ProperSubstring == {<<"url", "source_url">>, <<"text", "translated_text">>, <<"text", "summarize_text">>}

\* the words of str(input_schema)
SchemaWords(schema) ==
    IF schema = EmptySchema THEN {}
    ELSE schema.properties \cup Range(schema.required)
           \cup {"type", "object", "properties", "required", "string"}

\* key in str(target_tool.input_schema)
KeyInSchemaText(key, schema) ==
    \E w \in SchemaWords(schema) : key = w \/ <<key, w>> \in ProperSubstring

-----------------------------------------------------------------------------
(* TranslationEngine: translator.py *)

\* models.py GraphEdge; confidence is in hundredths
GraphEdge(ss, st, ts, tt, ctype, conf, hint) ==
    [source_server |-> ss, source_tool |-> st, target_server |-> ts, target_tool |-> tt,
     compatibility_type |-> ctype, confidence |-> conf, translation_hint |-> hint]

\* a step's edge is << >> (None) or <<edge>>
NoEdge == << >>

\* cache_key = f"{edge.source_server}.{edge.source_tool}->{edge.target_server}.{edge.target_tool}"
CacheKey(edge) ==
    edge.source_server \o "." \o edge.source_tool \o "->" \o edge.target_server \o "." \o edge.target_tool

\* one entry of spec["mappings"]
Mapping(target_field, source_field, source) ==
    [target_field |-> target_field, source_field |-> source_field, source |-> source]

\* what ask_gemini gives generate_spec: it raises ("raise"), returns text that
\* json.loads rejects ("garbled"), or returns the JSON text of `mappings`
OracleRaise == [kind |-> "raise", mappings |-> << >>]
OracleGarbled == [kind |-> "garbled", mappings |-> << >>]
OracleSpec(mappings) == [kind |-> "json", mappings |-> mappings]

\* a generate_spec that caches an empty spec when the oracle or json.loads fails
GenerateSpecCachesFailure(edge, source_output, target_input_schema, cache, reply) ==
    IF reply.kind = "json"
    THEN [raised |-> FALSE, spec |-> [mappings |-> reply.mappings],
          cache |-> Put(cache, CacheKey(edge), [mappings |-> reply.mappings]), asked |-> 1]
    ELSE [raised |-> TRUE, spec |-> [mappings |-> << >>],
          cache |-> Put(cache, CacheKey(edge), [mappings |-> << >>]), asked |-> 1]

\* translator.py 25-72: generate_spec when the key is not cached
GenerateSpecMissesCache(edge, source_output, target_input_schema, cache, reply) ==
    IF reply.kind = "json"
    THEN [raised |-> FALSE, spec |-> [mappings |-> reply.mappings],
          cache |-> Put(cache, CacheKey(edge), [mappings |-> reply.mappings]), asked |-> 1]
    ELSE [raised |-> TRUE, spec |-> [mappings |-> << >>], cache |-> cache, asked |-> 1]

\* a generate_spec that never looks into the cache
generate_spec_uncached(edge, source_output, target_input_schema, cache, reply) ==
    GenerateSpecMissesCache(edge, source_output, target_input_schema, cache, reply)

\* TranslationEngine.generate_spec
generate_spec(edge, source_output, target_input_schema, cache, reply) ==
    IF CacheKey(edge) \in DOMAIN cache
    THEN [raised |-> FALSE, spec |-> cache[CacheKey(edge)], cache |-> cache, asked |-> 0]
    ELSE GenerateSpecMissesCache(edge, source_output, target_input_schema, cache, reply)

\* the value one mapping resolves to (translator.py 87-92); the caller has
\* checked that source_output is a dict when it is read
MappingValue(m, source_output, ctx) ==
    IF m.source = "context" \/ m.source_field = None
    THEN IF Get(ctx, m.target_field) = None
         THEN Get(ctx, m.source_field)
         ELSE Get(ctx, m.target_field)
    ELSE Get(source_output, m.source_field)

MappingReadsOutput(m) == ~(m.source = "context" \/ m.source_field = None)

\* a test that lets the empty string through
NotNone(value) == value /= None

\* translator.py 95: value is not None and value != ""
RealValue(value) == value /= None /\ value /= ""

RECURSIVE ApplyMappings(_, _, _, _)
ApplyMappings(mappings, source_output, ctx, result) ==
    IF mappings = << >> THEN [raised |-> FALSE, value |-> result]
    ELSE LET m == Head(mappings) IN
         IF MappingReadsOutput(m) /\ ~IsDict(source_output)
         THEN [raised |-> TRUE, value |-> EmptyDict]
         ELSE LET value == MappingValue(m, source_output, ctx) IN
              ApplyMappings(Tail(mappings), source_output, ctx,
                            IF RealValue(value)
                            THEN Put(result, m.target_field, value)
                            ELSE result)

\* TranslationEngine.apply_translation
apply_translation(spec, source_output, ctx) ==
    ApplyMappings(spec.mappings, source_output, ctx, EmptyDict)

-----------------------------------------------------------------------------
(* PipelineExecutor: executor.py *)

PipelineStep(server_name, tool_name, edge) ==
    [server_name |-> server_name, tool_name |-> tool_name, edge |-> edge]

TEXT_ALIASES == <<"content", "translated_text", "summary", "text", "result">>

\* executor.py 80-84: the first alias with a non-empty value in current_data
RECURSIVE FirstAlias(_, _)
FirstAlias(aliases, data) ==
    IF aliases = << >> THEN << >>
    ELSE IF Has(data, Head(aliases)) /\ Truthy(data[Head(aliases)]) THEN <<Head(aliases)>>
    ELSE FirstAlias(Tail(aliases), data)

\* executor.py 79-98, for one required field that is missing or empty, on a
\* dict current_data
FillField(field, input, data) ==
    IF field = "text"
    THEN LET a == FirstAlias(TEXT_ALIASES, data)
             tried == IF a = << >> THEN input ELSE Put(input, "text", data[a[1]])
         IN  IF ~Has(tried, "text") \/ ~Truthy(tried["text"])
             THEN Put(tried, "text", Dumps(data))
             ELSE tried
    ELSE IF field = "url"
    THEN IF Has(data, "url") THEN Put(input, "url", data["url"])
         ELSE IF Has(data, "source_url") THEN Put(input, "url", data["source_url"])
         ELSE input
    ELSE IF Has(data, field) THEN Put(input, field, data[field])
    ELSE input

\* executor.py 75-98: the required-field fallback; `alias in current_data` and
\* `field in current_data` raise TypeError when current_data is not a dict
RECURSIVE FillRequired(_, _, _)
FillRequired(required, input, data) ==
    IF required = << >> THEN [raised |-> FALSE, value |-> input]
    ELSE LET field == Head(required) IN
         IF ~Has(input, field) \/ ~Truthy(input[field])
         THEN IF ~IsDict(data) THEN [raised |-> TRUE, value |-> input]
              ELSE FillRequired(Tail(required), FillField(field, input, data), data)
         ELSE FillRequired(Tail(required), input, data)

\* executor.py 67-72: translation, degrading to {} when it raises
Translate(edge, data, schema, ctx, cache, reply) ==
    LET g == generate_spec(edge, data, schema, cache, reply)
        a == apply_translation(g.spec, data, ctx)
    IN  [value |-> IF g.raised \/ a.raised THEN EmptyDict ELSE a.value,
         failed |-> g.raised \/ a.raised,
         cache |-> g.cache, asked |-> g.asked]

\* executor.py 142-148: the summary part of the message
SummaryPart(outs) ==
    IF ~Has(outs, "summarizer") THEN [raised |-> FALSE, value |-> ""]
    ELSE IF ~IsDict(outs["summarizer"]) THEN [raised |-> TRUE, value |-> ""]
    ELSE [raised |-> FALSE,
          value |-> IF Has(outs["summarizer"], "summary")
                    THEN "Summary:" \o outs["summarizer"]["summary"] ELSE ""]

\* the JSON numbers of the model, written as their digits, and f"{n:.0%}"
IsNumber(v) == v \in {"0", "0.5", "0.85"}
Percent(n) == IF n = "0" THEN "0%" ELSE IF n = "0.5" THEN "50%" ELSE "85%"

\* str.title() on the model's sentiment words
Title(word) ==
    IF word = "positive" THEN "Positive" ELSE IF word = "unknown" THEN "Unknown" ELSE word

\* executor.py 151-162: the sentiment part of the message; sentiment.title()
\* raises when sentiment is None and f"{confidence:.0%}" when confidence is
\* no number
SentimentPart(outs) ==
    IF ~Has(outs, "sentiment-analyzer") THEN [raised |-> FALSE, value |-> ""]
    ELSE IF ~IsDict(outs["sentiment-analyzer"]) THEN [raised |-> TRUE, value |-> ""]
    ELSE LET sentiment == GetOr(outs["sentiment-analyzer"], "sentiment", "unknown")
             confidence == GetOr(outs["sentiment-analyzer"], "confidence", "0")
             explanation == GetOr(outs["sentiment-analyzer"], "explanation", "")
         IN  IF sentiment = None \/ ~IsNumber(confidence)
             THEN [raised |-> TRUE, value |-> ""]
             ELSE [raised |-> FALSE,
                   value |-> "Sentiment:" \o Title(sentiment) \o "(" \o Percent(confidence)
                             \o ")" \o (IF Truthy(explanation) THEN "_" \o explanation \o "_"
                                         ELSE "")]

\* PipelineExecutor._build_slack_message
build_slack_message(outs, ctx) ==
    LET s == SummaryPart(outs)
        t == SentimentPart(outs)
        body == IF s.value \o t.value /= "" THEN s.value \o t.value
                ELSE "{" \o DumpOutputs(outs, ServerOrder) \o "}"
    IN  [raised |-> s.raised \/ t.raised,
         value |-> [channel |-> GetOr(ctx, "channel", "#team-updates"), message_body |-> body]]

\* a merge that lets the context win
MergeOverwriting(keys, ctx, input, server_tool) ==
    [k \in (DOMAIN input) \cup (DOMAIN ctx) |-> IF k \in DOMAIN ctx THEN ctx[k] ELSE input[k]]

\* executor.py 102-107: merge the context fields the tool's schema mentions
RECURSIVE MergeContext(_, _, _, _)
MergeContext(keys, ctx, input, server_tool) ==
    IF keys = << >> THEN input
    ELSE LET key == Head(keys) IN
         MergeContext(Tail(keys), ctx,
                      IF ~Has(input, key) /\ server_tool /= << >>
                            /\ KeyInSchemaText(key, server_tool[1].input_schema)
                      THEN Put(input, key, ctx[key])
                      ELSE input,
                      server_tool)

\* context.items() in the order of the model's field names
RECURSIVE KeysOf(_, _)
KeysOf(d, order) ==
    IF order = << >> THEN << >>
    ELSE IF Head(order) \in DOMAIN d THEN <<Head(order)>> \o KeysOf(d, Tail(order))
    ELSE KeysOf(d, Tail(order))

\* executor.py 58-98: the input of a step that has an edge, before the merge
EdgeInput(server, step, data, outs, ctx, cache, reply) ==
    LET schema == TargetSchema(server, step.tool_name) IN
    IF step.server_name = "slack-sender"
    THEN LET b == build_slack_message(outs, ctx)
         IN  [raised |-> b.raised, value |-> b.value, cache |-> cache, asked |-> 0,
              translated |-> FALSE, failed |-> FALSE]
    ELSE LET t == Translate(step.edge[1], data, schema, ctx, cache, reply)
             f == FillRequired(schema.required, t.value, data)
         IN  [raised |-> f.raised, value |-> f.value, cache |-> t.cache, asked |-> t.asked,
              translated |-> TRUE, failed |-> t.failed]

\* executor.py 57-111: the input of a step whose server is registered.
\* `prep_raised`: the try block raised; `raised`: the except handler's
\* dict(current_data) raised too, which execute does not catch
PrepareInput(server, step, data, outs, ctx, cache, reply) ==
    LET e == IF step.edge /= NoEdge
             THEN EdgeInput(server, step, data, outs, ctx, cache, reply)
             ELSE [raised |-> ~IsDict(data), value |-> data, cache |-> cache, asked |-> 0,
                   translated |-> FALSE, failed |-> FALSE]
        merged == MergeContext(KeysOf(ctx, FieldOrder), ctx, e.value,
                               FindTool(server.tools, step.tool_name))
    IN  [raised |-> e.raised /\ ~IsDict(data),
         prep_raised |-> e.raised,
         value |-> IF e.raised THEN data ELSE merged,
         cache |-> e.cache, asked |-> e.asked,
         translated |-> e.translated, failed |-> e.failed]

-----------------------------------------------------------------------------
(* PipelineExecutor._call_tool and the tool servers' replies *)

\* what a tool server does with a call: the connect -> call -> disconnect
\* cycle raises ("error"), or call_tool returns a result with no content
\* ("none"), with text that is a JSON object ("object"), with text that is
\* JSON but no object ("scalar"), or with text that is no JSON ("text")
ToolError == [kind |-> "error", obj |-> EmptyDict, text |-> "connection closed"]
ToolNoContent == [kind |-> "none", obj |-> EmptyDict, text |-> ""]
ToolObject(obj) == [kind |-> "object", obj |-> obj, text |-> ""]
ToolScalar == [kind |-> "scalar", obj |-> EmptyDict, text |-> "42"]
ToolText(text) == [kind |-> "text", obj |-> EmptyDict, text |-> text]

\* a parse that gives {} for text that is no JSON
ParseContentDroppingText(reply) ==
    IF reply.kind = "object" THEN reply.obj
    ELSE IF reply.kind = "scalar" THEN NonObject
    ELSE EmptyDict

\* executor.py 189-196: the value _call_tool returns for a reply
ParseContent(reply) ==
    IF reply.kind = "object" THEN reply.obj
    ELSE IF reply.kind = "scalar" THEN NonObject
    ELSE IF reply.kind = "text" THEN [result |-> reply.text]
    ELSE EmptyDict

\* PipelineExecutor._call_tool, once the session is open; `reply` keeps what
\* the server answered
call_tool(reply) ==
    IF reply.kind = "error"
    THEN [raised |-> TRUE, output |-> EmptyDict, error |-> reply.text, reply |-> reply]
    ELSE [raised |-> FALSE, output |-> ParseContent(reply), error |-> None, reply |-> reply]

NoPending ==
    [raised |-> FALSE, output |-> EmptyDict, error |-> None,
     reply |-> [kind |-> "nothing", obj |-> EmptyDict, text |-> ""]]

\* executor.py 16-24; `step` is the position of the step in pipeline.steps
ExecutionResult(step, input_data, output_data, success, error) ==
    [step |-> step, input_data |-> input_data, output_data |-> output_data,
     success |-> success, error |-> error]

-----------------------------------------------------------------------------
(* The inputs of the executor model *)

SummarizerToNotifier ==
    GraphEdge("summarizer", "summarize_text", "notifier", "notify", "translatable", 80, "summary to body")

SummarizerToSlack ==
    GraphEdge("summarizer", "summarize_text", "slack-sender", "send_slack_message", "translatable", 90, "")

StepChoices ==
    { PipelineStep("ghost", "haunt", NoEdge),
      PipelineStep("summarizer", "summarize_text", NoEdge),
      PipelineStep("notifier", "notify", <<SummarizerToNotifier>>),
      PipelineStep("slack-sender", "send_slack_message", <<SummarizerToSlack>>) }

Pipelines == UNION {[1..n -> StepChoices] : n \in 0..MaxSteps}

InitialInputs == {[url |-> "https://e.com"]}

Contexts == {[channel |-> "#team"]}

\* the object a server's tool answers with
ServerOutput(name) ==
    IF name = "summarizer" THEN [summary |-> "short"]
    ELSE [success |-> "true", channel |-> "#team"]

\* the objects sentiment-analyzer answers with: what the oracle's JSON held
\* for sentiment and confidence is passed on as it came
\* (servers/sentiment-analyzer/server.py 61-68)
SentimentOutputs ==
    { [sentiment |-> "positive", confidence |-> "0.85"],
      [sentiment |-> "positive", confidence |-> "high"],
      [sentiment |-> None, confidence |-> "0.5"] }

ToolReplies(name) ==
    {ToolError, ToolScalar, ToolNoContent, ToolText("plain words")}
    \cup {ToolObject(obj) : obj \in IF name = "sentiment-analyzer" THEN SentimentOutputs
                                     ELSE {ServerOutput(name)}}

OracleReplies ==
    { OracleRaise, OracleGarbled,
      OracleSpec(<<Mapping("channel", None, "context")>>),
      OracleSpec(<<Mapping("channel", None, "context"), Mapping("message_body", "summary", "output")>>) }

-----------------------------------------------------------------------------
(* PipelineExecutor.execute as a state machine *)

\* the graph, its index and the edge table before anything was built
GraphIdle ==
    /\ db_edges = << >> /\ db_last = << >> /\ edges = << >> /\ gpc = "idle"
    /\ incremental = FALSE /\ build_servers = {} /\ candidates = << >>
    /\ start_edges = << >> /\ validated = {} /\ builds = 0 /\ last_build = "none"
    /\ tool_keys = << >> /\ output_embeddings = << >> /\ input_embeddings = << >>
    /\ embed = "A"
    /\ judged = << >>

\* executor.py 38-40
ExecStart ==
    /\ initial_input \in InitialInputs
    /\ context \in Contexts
    /\ pc = "loop"
    /\ i = 1
    /\ results = << >>
    /\ current_data = initial_input
    /\ all_outputs = EmptyDict
    /\ step_input = EmptyDict
    /\ pending = NoPending
    /\ specs_cache = EmptyDict
    /\ sessions_open = 0
    /\ invocations = << >>
    /\ connections = << >>
    /\ oracle_asked = 0
    /\ GraphIdle
    /\ RegistryIdle /\ DiscoveryIdle /\ TranslatorIdle /\ OthersIdle

InitExec == pipeline \in Pipelines /\ ExecStart

AtStep == pc = "loop" /\ i <= Len(pipeline)

\* executor.py 49-54: the step's server is not in self.servers
ExecMissingServer ==
    /\ AtStep
    /\ pipeline[i].server_name \notin DOMAIN Servers
    /\ results' = Append(results,
          ExecutionResult(i, current_data, EmptyDict, FALSE, "Server not found"))
    /\ i' = i + 1
    /\ UNCHANGED <<pipeline, initial_input, context, pc, current_data, all_outputs,
                   step_input, pending, specs_cache, sessions_open, invocations, connections,
                   oracle_asked>>
    /\ UNCHANGED outsideExec

\* The dict objects of a run are named by numbers: CallerObject is the dict
\* the caller handed in, k is the output of the k-th recorded result, and
\* NewObject is a dict made by the step at hand.
CallerObject == 0
NewObject == 0 - 1

\* executor.py 39, 125: the object current_data names after the results `rs`
RECURSIVE CurrentObject(_)
CurrentObject(rs) ==
    IF rs = << >> THEN CallerObject
    ELSE IF rs[Len(rs)].success THEN Len(rs)
    ELSE CurrentObject(SubSeq(rs, 1, Len(rs) - 1))

\* executor.py 53: a step whose server is missing records current_data itself
\* as its input
InputObject(rs, k) ==
    IF rs[k].error = "Server not found" THEN CurrentObject(SubSeq(rs, 1, k - 1))
    ELSE NewObject

\* a preparation that works on current_data itself
SameDict(obj) == obj

\* executor.py 100: dict(current_data) makes a new dict with the same items
DictCopy(obj) == NewObject

\* executor.py 57-107: the object the statements of the preparation write to;
\* apply_translation, {} and _build_slack_message each make a new dict
PreparedObject(step, rs) ==
    IF step.edge = NoEdge THEN DictCopy(CurrentObject(rs)) ELSE NewObject

\* what the dict `obj` holds once `value` was written to the dict `target`
Stored(obj, target, old, value) ==
    IF obj = target /\ target /= NewObject THEN value ELSE old

\* the results after a write of `value` to the dict `target`
ResultsAfterWrite(rs, target, value) ==
    [k \in DOMAIN rs |->
        [rs[k] EXCEPT !.input_data = Stored(InputObject(rs, k), target, @, value),
                      !.output_data = Stored(IF rs[k].success THEN k ELSE NewObject,
                                             target, @, value)]]

\* executor.py 56-118: resolve the step's input and call _call_tool with it;
\* the run ends with an exception when the except handler's
\* dict(current_data) raises
ExecPrepare ==
    /\ AtStep
    /\ pipeline[i].server_name \in DOMAIN Servers
    /\ \E reply \in OracleReplies :
          LET p == PrepareInput(Servers[pipeline[i].server_name], pipeline[i],
                                current_data, all_outputs, context, specs_cache, reply)
              target == IF p.prep_raised THEN NewObject
                        ELSE PreparedObject(pipeline[i], results)
          IN  /\ pc' = IF p.raised THEN "raised" ELSE "connect"
              /\ step_input' = IF p.raised THEN step_input ELSE p.value
              /\ specs_cache' = p.cache
              /\ oracle_asked' = oracle_asked + p.asked
              /\ invocations' = IF p.raised THEN invocations
                                ELSE Append(invocations, [step |-> i, input |-> p.value])
              /\ initial_input' = Stored(CallerObject, target, initial_input, p.value)
              /\ current_data' = Stored(CurrentObject(results), target, current_data, p.value)
              /\ results' = ResultsAfterWrite(results, target, p.value)
    /\ UNCHANGED <<pipeline, context, i, all_outputs, pending, sessions_open, connections>>
    /\ UNCHANGED outsideExec

\* executor.py 184-186: stdio_client and ClientSession are entered
ExecConnect ==
    /\ pc = "connect"
    /\ sessions_open' = sessions_open + 1
    /\ connections' = Append(connections, i)
    /\ pc' = "call"
    /\ UNCHANGED <<pipeline, initial_input, context, i, results, current_data,
                   all_outputs, step_input, pending, specs_cache, invocations,
                   oracle_asked>>
    /\ UNCHANGED outsideExec

\* executor.py 184-186: the server cannot be started or initialized, and the
\* exception reaches execute before any session is open
ExecConnectFails ==
    /\ pc = "connect"
    /\ pending' = call_tool(ToolError)
    /\ pc' = "record"
    /\ UNCHANGED <<pipeline, initial_input, context, i, results, current_data,
                   all_outputs, step_input, specs_cache, sessions_open, invocations, connections,
                   oracle_asked>>
    /\ UNCHANGED outsideExec

\* executor.py 187-196: session.call_tool(tool_name, input_data)
ExecCallTool ==
    /\ pc = "call"
    /\ \E reply \in ToolReplies(pipeline[i].server_name) :
          pending' = call_tool(reply)
    /\ pc' = "close"
    /\ UNCHANGED <<pipeline, initial_input, context, i, results, current_data,
                   all_outputs, step_input, specs_cache, sessions_open, invocations,
                   connections, oracle_asked>>
    /\ UNCHANGED outsideExec

\* a session that stays open when the call raised
ExecDisconnectOnSuccessOnly ==
    /\ pc = "close"
    /\ sessions_open' = IF pending.raised THEN sessions_open ELSE sessions_open - 1
    /\ pc' = "record"
    /\ UNCHANGED <<pipeline, initial_input, context, i, results, current_data,
                   all_outputs, step_input, pending, specs_cache, invocations, connections,
                   oracle_asked>>
    /\ UNCHANGED outsideExec

\* executor.py 184-185: the two `async with` blocks are left
ExecDisconnect ==
    /\ pc = "close"
    /\ sessions_open' = sessions_open - 1
    /\ pc' = "record"
    /\ UNCHANGED <<pipeline, initial_input, context, i, results, current_data,
                   all_outputs, step_input, pending, specs_cache, invocations, connections,
                   oracle_asked>>
    /\ UNCHANGED outsideExec

\* executor.py 123-125: the call returned
RecordSuccess ==
    /\ results' = Append(results,
          ExecutionResult(i, step_input, pending.output, TRUE, None))
    /\ all_outputs' = Put(all_outputs, pipeline[i].server_name, pending.output)
    /\ current_data' = pending.output

\* a failure handler that also resets current_data to the failed step's {}
RecordFailureResetsData ==
    /\ results' = Append(results,
          ExecutionResult(i, step_input, EmptyDict, FALSE, pending.error))
    /\ current_data' = EmptyDict
    /\ UNCHANGED all_outputs

\* executor.py 127-132: the call raised
RecordFailure ==
    /\ results' = Append(results,
          ExecutionResult(i, step_input, EmptyDict, FALSE, pending.error))
    /\ UNCHANGED <<all_outputs, current_data>>

\* executor.py 117-132
ExecRecord ==
    /\ pc = "record"
    /\ IF pending.raised THEN RecordFailure ELSE RecordSuccess
    /\ i' = i + 1
    /\ pc' = "loop"
    /\ pending' = NoPending
    /\ UNCHANGED <<pipeline, initial_input, context, step_input, specs_cache,
                   sessions_open, invocations, connections, oracle_asked>>
    /\ UNCHANGED outsideExec

\* executor.py 134-135
ExecReturn ==
    /\ pc = "loop"
    /\ i > Len(pipeline)
    /\ pc' = "done"
    /\ UNCHANGED <<pipeline, initial_input, context, i, results, current_data,
                   all_outputs, step_input, pending, specs_cache, sessions_open,
                   invocations, connections, oracle_asked>>
    /\ UNCHANGED outsideExec

NextExec ==
    \/ ExecMissingServer
    \/ ExecPrepare
    \/ ExecConnect
    \/ ExecConnectFails
    \/ ExecCallTool
    \/ ExecDisconnect
    \/ ExecRecord
    \/ ExecReturn

SpecExec == InitExec /\ [][NextExec]_vars

-----------------------------------------------------------------------------
(* Properties of execute *)

Registered(k) == pipeline[k].server_name \in DOMAIN Servers

\* the run is over: execute returned or let an exception out
Ended == pc \in {"done", "raised"}

Max(S) == CHOOSE x \in S : \A y \in S : y <= x

\* the output of the most recent successful step, or the initial input
LastValid ==
    LET ok == {k \in 1..Len(results) : results[k].success}
    IN  IF ok = {} THEN initial_input ELSE results[Max(ok)].output_data

\* a step was recorded as failed in this transition
FailedStepRecorded ==
    /\ Len(results') = Len(results) + 1
    /\ ~results'[Len(results')].success

\* C1: execute always returns and never raises, and the list it returns holds
\* exactly one ExecutionResult per pipeline step, in pipeline order, whatever
\* servers are missing and whatever translations and tool calls fail.
C1_ReturnsOneResultPerStep ==
    /\ pc /= "raised"
    /\ pc = "done" =>
          /\ Len(results) = Len(pipeline)
          /\ \A k \in 1..Len(results) : results[k].step = k

C3_MissingServerStepFailsAndRunGoesOn ==
    \A k \in 1..Len(results) :
        ~Registered(k) =>
            /\ ~results[k].success
            /\ Truthy(results[k].error)
            /\ \A n \in 1..Len(connections) : connections[n] /= k
            /\ \A n \in 1..Len(invocations) : invocations[n].step /= k
            /\ Ended => \A m \in (k + 1)..Len(pipeline) :
                            m <= Len(results) /\ results[m].step = m

\* the translation of the current step mapped message_body
TranslationMapsMessageBody ==
    /\ CacheKey(pipeline[i].edge[1]) \in DOMAIN specs_cache
    /\ \E m \in Range(specs_cache[CacheKey(pipeline[i].edge[1])].mappings) :
          m.target_field = "message_body"

\* C4: for a step with an incoming edge whose target schema requires channel
\* and message_body, when the previous output holds a non-empty summary and no
\* message_body and the translation did not map message_body, the input sent
\* to the tool contains message_body (filled from the summary alias).
C4_MessageBodyFilledFromSummary ==
    ( /\ pc = "connect"
      /\ pipeline[i].edge /= NoEdge
      /\ TargetSchema(Servers[pipeline[i].server_name], pipeline[i].tool_name).required
            = <<"channel", "message_body">>
      /\ IsDict(current_data)
      /\ Has(current_data, "summary") /\ Truthy(current_data["summary"])
      /\ ~Has(current_data, "message_body")
      /\ ~TranslationMapsMessageBody )
    => (Has(step_input, "message_body") /\ Truthy(step_input["message_body"]))

\* the _call_tool calls made for step k
InvocationsOf(k) == {n \in 1..Len(invocations) : invocations[n].step = k}

\* C5: for every step whose server is registered the tool is invoked exactly
\* once, with the resolved input, also when the translation raised or
\* required fields stay unfilled; a step fails only with the tool's own error.
C5_RegisteredStepInvokedOnce ==
    /\ \A k \in 1..Len(pipeline) :
          (Registered(k) /\ (k < i \/ Ended)) =>
              /\ Cardinality(InvocationsOf(k)) = 1
              /\ k <= Len(results)
              /\ \A n \in InvocationsOf(k) : invocations[n].input = results[k].input_data
    /\ \A k \in 1..Len(results) :
          (Registered(k) /\ ~results[k].success) => results[k].error = ToolError.text

-----------------------------------------------------------------------------
(* The edges table: database.py *)

\* the compound key of an edge or a row
EdgeKey(e) == <<e.source_server, e.source_tool, e.target_server, e.target_tool>>

\* an INSERT that ignores the UNIQUE constraint
save_edge_insert_only(rows, edge) == Append(rows, edge)

\* database.py save_edge: INSERT ... ON CONFLICT(compound key) DO UPDATE SET
\* compatibility_type, confidence, translation_hint
save_edge(rows, edge) ==
    IF \E n \in DOMAIN rows : EdgeKey(rows[n]) = EdgeKey(edge)
    THEN [n \in DOMAIN rows |->
            IF EdgeKey(rows[n]) = EdgeKey(edge)
            THEN [rows[n] EXCEPT !.compatibility_type = edge.compatibility_type,
                                 !.confidence = edge.confidence,
                                 !.translation_hint = edge.translation_hint]
            ELSE rows[n]]
    ELSE Append(rows, edge)

\* a load that forgets the rows
load_no_edges(rows) == << >>

\* database.py load_all_edges: SELECT * FROM edges, a NULL hint read as ""
load_all_edges(rows) ==
    [n \in DOMAIN rows |->
        [rows[n] EXCEPT !.translation_hint =
            IF rows[n].translation_hint = None THEN "" ELSE rows[n].translation_hint]]

\* an existence check that never finds the row
edge_never_exists(rows, ss, st, ts, tt) == FALSE

\* database.py edge_exists
edge_exists(rows, ss, st, ts, tt) ==
    \E n \in DOMAIN rows : EdgeKey(rows[n]) = <<ss, st, ts, tt>>

\* a clear that deletes nothing
clear_no_edges(rows) == rows

\* database.py clear_all_edges: DELETE FROM edges
clear_all_edges(rows) == << >>

\* a delete that looks at the source server only
delete_edges_from_server(rows, server_name) ==
    SelectSeq(rows, LAMBDA r : r.source_server /= server_name)

\* database.py delete_edges_for_server: DELETE FROM edges WHERE
\* source_server = ? OR target_server = ?
delete_edges_for_server(rows, server_name) ==
    SelectSeq(rows, LAMBDA r : r.source_server /= server_name /\ r.target_server /= server_name)

\* database.py save_server, as far as the servers table's names go
save_server(names, name) == names \cup {name}

\* database.py delete_server: DELETE FROM servers WHERE name = ?
delete_server(names, name) == names \ {name}

-----------------------------------------------------------------------------
(* EmbeddingIndex: embeddings.py.  A server or tool name is the sequence of *)
(* its parts between dots: "slack.v2" is <<"slack", "v2">>, and joining two *)
(* names with a dot concatenates the sequences.                             *)

\* key = f"{server.name}.{tool.name}"
ToolKey(server_name, tool_name) == server_name \o tool_name

\* source_key.split(".")[0]
KeyServer(key) == <<Head(key)>>

\* source_key.split(".", 1)
SplitKey(key) == [server |-> <<Head(key)>>, tool |-> Tail(key)]

Fetcher == <<"fetcher">>
Summarizer == <<"summarizer">>
Notifier == <<"notifier">>

\* the registry's servers, in registration order, each with its tools' names
GraphServerOrder == <<Fetcher, Summarizer, Notifier>>

GraphTools(server_name) ==
    IF server_name = Fetcher THEN <<<<"fetch_url">>>>
    ELSE IF server_name = Summarizer THEN <<<<"summarize_text">>>>
    ELSE <<<<"notify">>>>

\* the vectors the embedding oracles A, B and C give for an operation's "produces" text
\* (side "out") and "requires" text (side "in")
Embedding(table, key, side) ==
    IF table = "A"
    THEN CASE KeyServer(key) = Fetcher -> IF side = "out" THEN <<1, 0>> ELSE <<0, 1>>
           [] KeyServer(key) = Summarizer -> IF side = "out" THEN <<2, 1>> ELSE <<1, 0>>
           [] OTHER -> IF side = "out" THEN <<0, 1>> ELSE <<1, 1>>
    ELSE IF table = "B"
    THEN CASE KeyServer(key) = Fetcher -> <<1, 0>>
           [] KeyServer(key) = Summarizer -> IF side = "out" THEN <<1, 1>> ELSE <<1, 0>>
           [] OTHER -> IF side = "out" THEN <<0, 1>> ELSE <<1, 2>>
    ELSE CASE key = <<"fetcher", "fetch_url">> ->
                IF side = "out" THEN <<1, 0>> ELSE <<0, -1>>
           [] key = <<"summarizer", "summarize_text">> ->
                IF side = "out" THEN <<1, 1>> ELSE <<1, 0>>
           [] key = <<"summarizer", "count_words">> ->
                IF side = "out" THEN <<0, 1>> ELSE <<1, 1>>
           [] key = <<"slack", "v1", "send_slack_message">> ->
                IF side = "out" THEN <<-1, 0>> ELSE <<1, 0>>
           [] OTHER -> IF side = "out" THEN <<0, 1>> ELSE <<2, 1>>

EmbeddingOracles == {"A", "B"}

EmptyIndex == [output_embeddings |-> << >>, input_embeddings |-> << >>, tool_keys |-> << >>]

\* a skip test that never skips
NeverIndexed(index, key) == FALSE

\* embeddings.py 79: if key in self.output_embeddings
AlreadyIndexed(index, key) == key \in DOMAIN index.output_embeddings

\* embeddings.py 77-93, one tool of index_server
IndexTool(index, table, server_name, tool_name) ==
    LET key == ToolKey(server_name, tool_name) IN
    IF AlreadyIndexed(index, key) THEN index
    ELSE [output_embeddings |-> Put(index.output_embeddings, key, Embedding(table, key, "out")),
          input_embeddings |-> Put(index.input_embeddings, key, Embedding(table, key, "in")),
          tool_keys |-> IF key \in Range(index.tool_keys) THEN index.tool_keys
                        ELSE Append(index.tool_keys, key)]

\* EmbeddingIndex.index_server
RECURSIVE index_server(_, _, _, _)
index_server(index, table, server_name, tools) ==
    IF tools = << >> THEN index
    ELSE index_server(IndexTool(index, table, server_name, Head(tools)), table,
                      server_name, Tail(tools))

\* EmbeddingIndex.index_all_servers over the servers in `names`
RECURSIVE index_all_servers(_, _, _, _)
index_all_servers(index, table, order, names) ==
    IF order = << >> THEN index
    ELSE index_all_servers(
            IF Head(order) \in names
            THEN index_server(index, table, Head(order), GraphTools(Head(order)))
            ELSE index,
            table, Tail(order), names)

Dot(a, b) == a[1] * b[1] + a[2] * b[2]

\* cosine_similarity(a, b) as the pair <<d, n>> that stands for d / sqrt(n)
Cosine(a, b) == <<Dot(a, b), Dot(a, a) * Dot(b, b)>>

\* sim >= threshold, the threshold in hundredths
SimAtLeast(sim, threshold) ==
    IF threshold >= 0
    THEN sim[1] >= 0 /\ sim[1] * sim[1] * 10000 >= threshold * threshold * sim[2]
    ELSE sim[1] >= 0 \/ sim[1] * sim[1] * 10000 <= threshold * threshold * sim[2]

\* p > q for two similarities
SimGreater(p, q) ==
    IF p[1] >= 0 /\ q[1] >= 0 THEN p[1] * p[1] * q[2] > q[1] * q[1] * p[2]
    ELSE IF p[1] >= 0 THEN TRUE
    ELSE IF q[1] >= 0 THEN FALSE
    ELSE p[1] * p[1] * q[2] < q[1] * q[1] * p[2]

\* the pair loops without the same-server test
CandidatePairsAnyServer(index, threshold) ==
    LET n == Len(index.tool_keys)
        all == [m \in 1..(n * n) |->
                  [source_key |-> index.tool_keys[((m - 1) \div n) + 1],
                   target_key |-> index.tool_keys[((m - 1) % n) + 1],
                   sim |-> Cosine(index.output_embeddings[index.tool_keys[((m - 1) \div n) + 1]],
                                  index.input_embeddings[index.tool_keys[((m - 1) % n) + 1]])]]
    IN  SelectSeq(all, LAMBDA c : SimAtLeast(c.sim, threshold))

\* embeddings.py 112-126: the pairs in the order of the two loops
CandidatePairs(index, threshold) ==
    LET n == Len(index.tool_keys)
        pair(m) == [source_key |-> index.tool_keys[((m - 1) \div n) + 1],
                    target_key |-> index.tool_keys[((m - 1) % n) + 1]]
        sim(c) == Cosine(index.output_embeddings[c.source_key],
                         index.input_embeddings[c.target_key])
        all == [m \in 1..(n * n) |->
                  [source_key |-> pair(m).source_key, target_key |-> pair(m).target_key,
                   sim |-> sim(pair(m))]]
    IN  SelectSeq(all, LAMBDA c : /\ KeyServer(c.source_key) /= KeyServer(c.target_key)
                                  /\ SimAtLeast(c.sim, threshold))

\* list.sort(key=lambda x: -x[2]): a stable sort, highest similarity first
RECURSIVE InsertBySim(_, _)
InsertBySim(sorted, c) ==
    IF sorted = << >> THEN <<c>>
    ELSE IF SimGreater(c.sim, Head(sorted).sim) THEN <<c>> \o sorted
    ELSE <<Head(sorted)>> \o InsertBySim(Tail(sorted), c)

\* the candidates left in the order the loops found them
Unsorted(done, todo) == done \o todo

RECURSIVE SortBySim(_, _)
SortBySim(done, todo) ==
    IF todo = << >> THEN done
    ELSE SortBySim(InsertBySim(done, Head(todo)), Tail(todo))

\* s[:n]
Take(s, n) == IF Len(s) <= n THEN s ELSE SubSeq(s, 1, n)

\* EmbeddingIndex.find_candidates
find_candidates(index, threshold, top_k) ==
    IF Len(index.tool_keys) < 2 THEN << >>
    ELSE Take(SortBySim(<< >>, CandidatePairs(index, threshold)),
              top_k * Len(index.tool_keys))

-----------------------------------------------------------------------------
(* CapabilityGraph.build_edges: graph.py *)

\* graph.py 58: find_candidates(threshold=0.45), in hundredths
BuildThreshold == 45

\* embeddings.py 102: top_k: int = 10
DefaultTopK == 10

\* what ask_gemini gives _evaluate_edge: it raises, returns text json.loads
\* rejects, or returns the JSON object `parsed`
EdgeOracleRaise == [kind |-> "raise", parsed |-> EmptyDict]
EdgeOracleGarbled == [kind |-> "garbled", parsed |-> EmptyDict]
EdgeOracleJson(parsed) == [kind |-> "json", parsed |-> parsed]

\* graph.py 149-174: ask_gemini raises, or json.loads gives a value that is
\* no object and parsed.get raises AttributeError
EvaluateRaises(reply) ==
    \/ reply.kind = "raise"
    \/ reply.kind = "json" /\ ~IsDict(reply.parsed)

\* graph.py 157-174, for a reply that did not raise
evaluate_edge(src_server, src_tool, tgt_server, tgt_tool, reply) ==
    LET parsed == IF reply.kind = "garbled"
                  THEN [compatibility_type |-> "incompatible", confidence |-> 0,
                        translation_hint |-> ""]
                  ELSE reply.parsed
    IN  GraphEdge(src_server, src_tool, tgt_server, tgt_tool,
                  GetOr(parsed, "compatibility_type", "incompatible"),
                  GetOr(parsed, "confidence", 0),
                  GetOr(parsed, "translation_hint", ""))

\* a build that stores whatever the oracle says
ShouldSaveAlways(edge) == TRUE

\* graph.py 93
ShouldSave(edge) == edge.compatibility_type /= "incompatible"

EdgeOracleReplies ==
    { EdgeOracleRaise,
      EdgeOracleGarbled,
      EdgeOracleJson(NonObject),
      EdgeOracleJson(EmptyDict),
      EdgeOracleJson([compatibility_type |-> "direct", confidence |-> 90, translation_hint |-> ""]),
      EdgeOracleJson([compatibility_type |-> "translatable", confidence |-> 50,
                      translation_hint |-> "rename"]),
      EdgeOracleJson([compatibility_type |-> "incompatible", confidence |-> 10,
                      translation_hint |-> ""]) }

\* the `servers` argument of build_edges: the names of the registered servers
ServerChoices == {{Fetcher, Summarizer, Notifier}, {Fetcher, Summarizer}}

\* the executor at rest
ExecIdle ==
    /\ pipeline = << >> /\ initial_input = EmptyDict /\ context = EmptyDict
    /\ pc = "idle" /\ i = 1 /\ results = << >> /\ current_data = EmptyDict
    /\ all_outputs = EmptyDict /\ step_input = EmptyDict /\ pending = NoPending
    /\ specs_cache = EmptyDict /\ sessions_open = 0 /\ invocations = << >>
    /\ connections = << >> /\ oracle_asked = 0

\* CapabilityGraph(use_cache) on an empty database
InitGraph ==
    /\ ExecIdle
    /\ db_edges = << >> /\ db_last = << >> /\ edges = << >> /\ gpc = "idle"
    /\ incremental = FALSE /\ build_servers = {} /\ candidates = << >>
    /\ start_edges = << >> /\ validated = {} /\ builds = 0 /\ last_build = "none"
    /\ tool_keys = << >> /\ output_embeddings = << >> /\ input_embeddings = << >>
    /\ embed \in EmbeddingOracles
    /\ judged = << >>
    /\ RegistryIdle /\ DiscoveryIdle /\ TranslatorIdle /\ OthersIdle

TheIndex ==
    [output_embeddings |-> output_embeddings, input_embeddings |-> input_embeddings,
     tool_keys |-> tool_keys]

\* a build that clears the table whatever the flag
ClearedAlways(incr) == clear_all_edges(db_edges)

\* graph.py 47-49
ClearedRows(incr) == IF incr THEN db_edges ELSE clear_all_edges(db_edges)

\* graph.py 47-59: clear on a full rebuild, index the servers, find candidates
BuildStart ==
    /\ gpc = "idle"
    /\ builds < MaxBuilds
    /\ \E names \in ServerChoices, incr \in BOOLEAN :
          LET index == index_all_servers(TheIndex, embed, GraphServerOrder, names) IN
          /\ db_edges' = ClearedRows(incr)
          /\ edges' = IF incr THEN edges ELSE << >>
          /\ output_embeddings' = index.output_embeddings
          /\ input_embeddings' = index.input_embeddings
          /\ tool_keys' = index.tool_keys
          /\ candidates' = find_candidates(index, BuildThreshold, DefaultTopK)
          /\ incremental' = incr
          /\ build_servers' = names
    /\ start_edges' = db_edges
    /\ validated' = {}
    /\ builds' = builds + 1
    /\ last_build' = "running"
    /\ gpc' = "validating"
    /\ judged' = << >>
    /\ UNCHANGED <<db_last, embed>>
    /\ UNCHANGED outsideGraph

\* graph.py 47-54: the embedding oracle raises at the first operation to
\* index, after a full rebuild has cleared the table
BuildIndexFails ==
    /\ gpc = "idle"
    /\ builds < MaxBuilds
    /\ \E names \in ServerChoices, incr \in BOOLEAN :
          /\ index_all_servers(TheIndex, embed, GraphServerOrder, names) /= TheIndex
          /\ db_edges' = ClearedRows(incr)
          /\ edges' = IF incr THEN edges ELSE << >>
          /\ incremental' = incr
          /\ build_servers' = names
    /\ start_edges' = db_edges
    /\ validated' = {}
    /\ candidates' = << >>
    /\ builds' = builds + 1
    /\ last_build' = "raised"
    /\ judged' = << >>
    /\ UNCHANGED <<db_last, gpc, tool_keys, output_embeddings, input_embeddings, embed>>
    /\ UNCHANGED outsideGraph

Validating == gpc = "validating" /\ candidates /= << >>

Source == SplitKey(Head(candidates).source_key)
Target == SplitKey(Head(candidates).target_key)

\* graph.py 71
AlreadyStored ==
    incremental /\ edge_exists(db_edges, Source.server, Source.tool, Target.server, Target.tool)

\* graph.py 76-84: both servers are among `servers` and have the tools
Resolvable ==
    /\ Source.server \in build_servers /\ Target.server \in build_servers
    /\ Source.tool \in Range(GraphTools(Source.server))
    /\ Target.tool \in Range(GraphTools(Target.server))

\* graph.py 70-73: the candidate's key is stored already
BuildSkipStored ==
    /\ Validating
    /\ AlreadyStored
    /\ candidates' = Tail(candidates)
    /\ UNCHANGED <<db_edges, db_last, edges, gpc, incremental, build_servers, start_edges,
                   validated, builds, last_build, tool_keys, output_embeddings,
                   input_embeddings, embed, judged>>
    /\ UNCHANGED outsideGraph

\* graph.py 75-84: a server or tool of the candidate is not among `servers`
BuildSkipUnknown ==
    /\ Validating
    /\ ~AlreadyStored
    /\ ~Resolvable
    /\ candidates' = Tail(candidates)
    /\ UNCHANGED <<db_edges, db_last, edges, gpc, incremental, build_servers, start_edges,
                   validated, builds, last_build, tool_keys, output_embeddings,
                   input_embeddings, embed, judged>>
    /\ UNCHANGED outsideGraph

\* the compound key of the candidate at hand
CandidateKey == <<Source.server, Source.tool, Target.server, Target.tool>>

\* graph.py 88-99: the oracle judges the candidate; the edge is saved unless
\* it is incompatible
BuildValidate ==
    /\ Validating
    /\ ~AlreadyStored
    /\ Resolvable
    /\ \E reply \in EdgeOracleReplies :
          LET edge == evaluate_edge(Source.server, Source.tool, Target.server, Target.tool, reply)
          IN  /\ ~EvaluateRaises(reply)
              /\ judged' = <<[reply |-> reply, key |-> CandidateKey]>>
              /\ IF ShouldSave(edge)
                 THEN db_edges' = save_edge(db_edges, edge) /\ db_last' = <<edge>>
                 ELSE UNCHANGED <<db_edges, db_last>>
    /\ validated' = validated \cup {CandidateKey}
    /\ candidates' = Tail(candidates)
    /\ UNCHANGED <<edges, gpc, incremental, build_servers, start_edges, builds, last_build,
                   tool_keys, output_embeddings, input_embeddings, embed>>
    /\ UNCHANGED outsideGraph

\* graph.py 88-91: _evaluate_edge raises (ask_gemini raised, or its answer
\* is JSON but no object) and the exception leaves build_edges
BuildOracleRaises ==
    /\ Validating
    /\ ~AlreadyStored
    /\ Resolvable
    /\ \E reply \in EdgeOracleReplies :
          /\ EvaluateRaises(reply)
          /\ judged' = <<[reply |-> reply, key |-> CandidateKey]>>
    /\ validated' = validated \cup {CandidateKey}
    /\ candidates' = << >>
    /\ gpc' = "idle"
    /\ last_build' = "raised"
    /\ UNCHANGED <<db_edges, db_last, edges, incremental, build_servers, start_edges, builds,
                   tool_keys, output_embeddings, input_embeddings, embed>>
    /\ UNCHANGED outsideGraph

\* graph.py 101-108: reload the edge list from the table and return
BuildFinish ==
    /\ gpc = "validating"
    /\ candidates = << >>
    /\ edges' = load_all_edges(db_edges)
    /\ gpc' = "idle"
    /\ last_build' = "returned"
    /\ UNCHANGED <<db_edges, db_last, incremental, build_servers, candidates, start_edges,
                   validated, builds, tool_keys, output_embeddings, input_embeddings, embed,
                   judged>>
    /\ UNCHANGED outsideGraph

NextGraph ==
    \/ BuildStart
    \/ BuildIndexFails
    \/ BuildSkipStored
    \/ BuildSkipUnknown
    \/ BuildValidate
    \/ BuildOracleRaises
    \/ BuildFinish

SpecGraph == InitGraph /\ [][NextGraph]_vars

-----------------------------------------------------------------------------
(* The edges table under its writers: database.py *)

\* the edges handed to save_edge: three compound keys, each with three
\* verdicts
DbVerdicts ==
    { [compatibility_type |-> "direct", confidence |-> 90, translation_hint |-> ""],
      [compatibility_type |-> "translatable", confidence |-> 50, translation_hint |-> "rename"],
      [compatibility_type |-> "translatable", confidence |-> 70, translation_hint |-> "rename"] }

DbKeys ==
    { <<Fetcher, <<"fetch_url">>, Summarizer, <<"summarize_text">>>>,
      <<Summarizer, <<"summarize_text">>, Notifier, <<"notify">>>>,
      <<Fetcher, <<"fetch_url">>, Notifier, <<"notify">>>> }

DbEdges ==
    { GraphEdge(k[1], k[2], k[3], k[4], v.compatibility_type, v.confidence, v.translation_hint) :
        k \in DbKeys, v \in DbVerdicts }

\* init_database on a new file: the table is empty
InitDb ==
    /\ ExecIdle
    /\ db_edges = << >> /\ db_last = << >> /\ edges = << >> /\ gpc = "idle"
    /\ incremental = FALSE /\ build_servers = {} /\ candidates = << >>
    /\ start_edges = << >> /\ validated = {} /\ builds = 0 /\ last_build = "none"
    /\ tool_keys = << >> /\ output_embeddings = << >> /\ input_embeddings = << >>
    /\ embed = "A"
    /\ judged = << >>
    /\ RegistryIdle /\ DiscoveryIdle /\ TranslatorIdle /\ OthersIdle

DbFrame ==
    /\ UNCHANGED <<edges, gpc, incremental, build_servers, candidates, start_edges, validated,
                   builds, last_build, tool_keys, output_embeddings, input_embeddings, embed,
                   judged>>
    /\ UNCHANGED <<execVars, discoveryVars, translatorVars, otherVars>>

\* database.py 294-319
DbSaveEdge ==
    /\ \E edge \in DbEdges :
          /\ db_edges' = save_edge(db_edges, edge)
          /\ db_last' = <<edge>>
    /\ unregistered' = << >>
    /\ UNCHANGED <<db_servers, registry_servers>>
    /\ DbFrame

\* database.py 404-408
DbClearAllEdges ==
    /\ db_edges' = clear_all_edges(db_edges)
    /\ db_last' = << >>
    /\ unregistered' = << >>
    /\ UNCHANGED <<db_servers, registry_servers>>
    /\ DbFrame

\* database.py 394-401
DbDeleteEdgesForServer ==
    /\ \E server_name \in {Fetcher, Summarizer, Notifier} :
          db_edges' = delete_edges_for_server(db_edges, server_name)
    /\ db_last' = << >>
    /\ unregistered' = << >>
    /\ UNCHANGED <<db_servers, registry_servers>>
    /\ DbFrame

\* the names handed to register and unregister
ServerNames == {Fetcher, Summarizer, Notifier}

\* registry.py 42-113: the record is saved (or found saved) and kept in memory
Register ==
    /\ \E name \in ServerNames :
          /\ db_servers' = save_server(db_servers, name)
          /\ registry_servers' = registry_servers \cup {name}
    /\ unregistered' = << >>
    /\ UNCHANGED <<db_edges, db_last>>
    /\ DbFrame

\* registry.py 159-167: drop the record from memory, delete the server's
\* edges, delete its row
Unregister ==
    /\ \E name \in ServerNames :
          /\ registry_servers' = registry_servers \ {name}
          /\ db_edges' = delete_edges_for_server(db_edges, name)
          /\ db_servers' = delete_server(db_servers, name)
          /\ unregistered' = <<[name |-> name, before |-> db_edges, known |-> name \in db_servers]>>
    /\ db_last' = << >>
    /\ DbFrame

NextDb ==
    \/ DbSaveEdge
    \/ DbClearAllEdges
    \/ DbDeleteEdgesForServer
    \/ Register
    \/ Unregister

SpecDb == InitDb /\ [][NextDb]_vars

-----------------------------------------------------------------------------
(* Properties of the edges table and of build_edges *)

\* the rows of the table that carry the compound key k
RowsWithKey(k) == {n \in DOMAIN db_edges : EdgeKey(db_edges[n]) = k}

\* C6: the table never holds two edges with the same compound key (source
\* server, source operation, target server, target operation), and after a
\* save_edge exactly one row carries the saved key, with the compatibility
\* type, confidence and translation hint of that most recent save.
C6_OneEdgePerKeyLastSaveWins ==
    /\ \A m, n \in DOMAIN db_edges :
          EdgeKey(db_edges[m]) = EdgeKey(db_edges[n]) => m = n
    /\ db_last /= << >> =>
          /\ Cardinality(RowsWithKey(EdgeKey(db_last[1]))) = 1
          /\ \A n \in RowsWithKey(EdgeKey(db_last[1])) :
                /\ db_edges[n].compatibility_type = db_last[1].compatibility_type
                /\ db_edges[n].confidence = db_last[1].confidence
                /\ db_edges[n].translation_hint = db_last[1].translation_hint

\* the most recent save hit a key stored already: new rows go last, and the
\* saved key is in the first of two rows, now with confidence 70
C6_Witness ==
    /\ Len(db_edges) = 2
    /\ db_last /= << >>
    /\ EdgeKey(db_edges[1]) = EdgeKey(db_last[1])
    /\ db_edges[1].confidence = 70
    /\ db_last[1].confidence = 70

\* C7: whatever the sequence of build_edges calls, incremental or full, and
\* whatever the oracle answers, no stored edge has compatibility type
\* "incompatible".
C7_NoIncompatibleEdgeStored ==
    \A n \in DOMAIN db_edges : db_edges[n].compatibility_type /= "incompatible"

\* a build has returned after the oracle judged a candidate, and that
\* candidate is not in the table
C7_Witness ==
    /\ last_build = "returned"
    /\ gpc = "idle"
    /\ db_edges /= << >>
    /\ \E k \in validated : RowsWithKey(k) = {}

StartKeys == {EdgeKey(start_edges[n]) : n \in DOMAIN start_edges}

\* C8: during and after build_edges with incremental=true every edge stored
\* when the build started is still stored with the same compatibility type,
\* confidence and hint, and the oracle has been asked about no candidate
\* whose compound key was stored.
C8_IncrementalKeepsStoredEdges ==
    (incremental /\ builds > 0) =>
        /\ \A n \in DOMAIN start_edges : start_edges[n] \in Range(db_edges)
        /\ validated \cap StartKeys = {}

\* an incremental build that started from stored edges has returned with
\* more edges than it started with
C8_Witness ==
    /\ incremental
    /\ last_build = "returned"
    /\ gpc = "idle"
    /\ start_edges /= << >>
    /\ validated /= {}
    /\ Len(db_edges) > Len(start_edges)

\* C9: build_edges with incremental=false deletes every stored edge before
\* it validates a candidate: from its start to its return the table holds
\* only edges whose candidate the oracle judged during that build.
C9_FullRebuildStoresOnlyValidated ==
    (~incremental /\ builds > 0) =>
        \A n \in DOMAIN db_edges : EdgeKey(db_edges[n]) \in validated

\* a full rebuild that started from stored edges has returned, and one of
\* the edges it started from is gone
C9_Witness ==
    /\ ~incremental
    /\ last_build = "returned"
    /\ gpc = "idle"
    /\ db_edges /= << >>
    /\ \E n \in DOMAIN start_edges : RowsWithKey(EdgeKey(start_edges[n])) = {}

\* C10: when build_edges has returned, the graph's edge list is the set of
\* edges in the table: every stored edge is in the list with its values,
\* and the list holds nothing else.
C10_EdgeListEqualsStorage ==
    (last_build = "returned" /\ gpc = "idle") =>
        /\ Len(edges) = Len(db_edges)
        /\ Range(edges) = Range(db_edges)

\* an incremental build has returned with edges it found stored and edges it
\* saved
C10_Witness ==
    /\ last_build = "returned"
    /\ gpc = "idle"
    /\ incremental
    /\ start_edges /= << >>
    /\ Len(edges) > Len(start_edges)
    /\ Len(edges) = Len(db_edges)

\* the oracle's answer is not the expected {compatibility_type, confidence,
\* translation_hint} structure: text json.loads rejects, or JSON that is no
\* object
Malformed(reply) ==
    \/ reply.kind = "garbled"
    \/ reply.kind = "json" /\ ~IsDict(reply.parsed)

\* C11: when the oracle's answer for a candidate is not the expected
\* structure, the candidate counts as incompatible: no edge is stored for
\* it, build_edges does not raise, and the build goes on with the remaining
\* candidates (it ends only by returning).
C11_MalformedAnswerIsSkipped ==
    (judged /= << >> /\ Malformed(judged[1].reply)) =>
        /\ RowsWithKey(judged[1].key) = {}
        /\ last_build /= "raised"
        /\ gpc = "validating" \/ last_build = "returned"

\* C12: after unregister(name) the servers table has no record named name
\* and the edges table no edge whose source or target server is name, while
\* the edges between other servers are stored as before.
C12_UnregisterRemovesServerAndItsEdges ==
    unregistered /= << >> =>
        LET name == unregistered[1].name
            before == unregistered[1].before
        IN  /\ name \notin db_servers
            /\ name \notin registry_servers
            /\ \A n \in DOMAIN db_edges :
                  db_edges[n].source_server /= name /\ db_edges[n].target_server /= name
            /\ \A n \in DOMAIN before :
                  (before[n].source_server /= name /\ before[n].target_server /= name)
                      => before[n] \in Range(db_edges)
            /\ Range(db_edges) \subseteq Range(before)
            /\ Len(db_edges) <= Len(before)

\* a registered server with an edge from it and an edge to it was
\* unregistered, and the one edge between the two other servers is left
C12_Witness ==
    /\ unregistered /= << >>
    /\ unregistered[1].known
    /\ Len(unregistered[1].before) = 3
    /\ \E m, n \in DOMAIN unregistered[1].before :
          /\ unregistered[1].before[m].source_server = unregistered[1].name
          /\ unregistered[1].before[n].target_server = unregistered[1].name
    /\ Len(db_edges) = 1

-----------------------------------------------------------------------------
(* DiscoveryEngine: discovery.py.  A request is the sequence of its        *)
(* characters, so that `w in request.lower()` is a substring test.          *)

Uppers ==
    <<"A", "B", "C", "D", "E", "F", "G", "H", "I", "J", "K", "L", "M", "N", "O", "P", "Q", "R",
      "S", "T", "U", "V", "W", "X", "Y", "Z">>
Lowers ==
    <<"a", "b", "c", "d", "e", "f", "g", "h", "i", "j", "k", "l", "m", "n", "o", "p", "q", "r",
      "s", "t", "u", "v", "w", "x", "y", "z">>

\* str.lower() of one character
LowerChar(c) ==
    IF \E n \in DOMAIN Uppers : Uppers[n] = c
    THEN Lowers[CHOOSE n \in DOMAIN Uppers : Uppers[n] = c]
    ELSE c

\* a request taken as it is, its case kept
keep_case(text) == text

\* discovery.py 165: request.lower()
lower(text) == [n \in DOMAIN text |-> LowerChar(text[n])]

\* `w in request_lower`
Contains(text, w) ==
    \E k \in 0..(Len(text) - Len(w)) : SubSeq(text, k + 1, k + Len(w)) = w

\* any(w in request_lower for w in [...])
AnyKeyword(text, keywords) == \E n \in DOMAIN keywords : Contains(text, keywords[n])

\* discovery.py 168-181: the keyword sets in the order they are tried, each
\* with the step it appends
FallbackRules ==
    <<
       [keywords |-> <<<<"f", "e", "t", "c", "h">>, <<"g", "e", "t">>, <<"w", "e", "b">>, <<"u", "r", "l">>, <<"h", "t", "t", "p">>>>,
        step |-> [server |-> "web-fetcher", tool |-> "fetch_url", reason |-> "Fetch web content"]],
       [keywords |-> <<<<"t", "r", "a", "n", "s", "l", "a", "t", "e">>, <<"t", "r", "a", "n", "s", "l", "a", "t", "i", "o", "n">>, <<"l", "a", "n", "g", "u", "a", "g", "e">>>>,
        step |-> [server |-> "translator", tool |-> "translate_text", reason |-> "Translate content"]],
       [keywords |-> <<<<"s", "u", "m", "m", "a", "r">>, <<"c", "o", "n", "d", "e", "n", "s", "e">>, <<"b", "r", "i", "e", "f">>>>,
        step |-> [server |-> "summarizer", tool |-> "summarize_text", reason |-> "Summarize content"]],
       [keywords |-> <<<<"s", "e", "n", "t", "i", "m", "e", "n", "t">>, <<"e", "m", "o", "t", "i", "o", "n">>, <<"t", "o", "n", "e">>, <<"f", "e", "e", "l">>>>,
        step |-> [server |-> "sentiment-analyzer", tool |-> "analyze_sentiment", reason |-> "Analyze sentiment"]],
       [keywords |-> <<<<"s", "l", "a", "c", "k">>, <<"p", "o", "s", "t">>, <<"s", "e", "n", "d">>, <<"m", "e", "s", "s", "a", "g", "e">>>>,
        step |-> [server |-> "slack-sender", tool |-> "send_slack_message", reason |-> "Post to Slack"]]
    >>

\* discovery.py 168-181: the steps of the rules from the n-th on that match
RECURSIVE FallbackSteps(_, _)
FallbackSteps(request_lower, n) ==
    IF n > Len(FallbackRules) THEN << >>
    ELSE (IF AnyKeyword(request_lower, FallbackRules[n].keywords)
          THEN <<FallbackRules[n].step>> ELSE << >>)
         \o FallbackSteps(request_lower, n + 1)

\* discovery.py 162-187, confidence in hundredths
create_fallback_pipeline(request) ==
    [steps |-> FallbackSteps(lower(request), 1),
     overall_confidence |-> 70,
     explanation |-> "Fallback pipeline based on keywords"]

\* The text ask_gemini answers with, as a sequence of segments: "text" is
\* words without braces, "open" a lone {, "close" a lone }, and "value" a
\* stretch that json.loads decodes to `value` (an object's stretch begins
\* with { and ends with }).  `fenced`: the text is wrapped in a code fence.
Text == [kind |-> "text", value |-> EmptyDict]
Open == [kind |-> "open", value |-> EmptyDict]
Close == [kind |-> "close", value |-> EmptyDict]
Value(v) == [kind |-> "value", value |-> v]
Answer(fenced, body) == [raises |-> FALSE, fenced |-> fenced, body |-> body]
AnswerRaises == [raises |-> TRUE, fenced |-> FALSE, body |-> << >>]

\* discovery.py 96-103: the code fence and the surrounding blanks are cut off
CleanFences(answer) == answer.body

\* json.loads(raw) succeeds: raw is one decodable stretch
Decodes(body) == Len(body) = 1 /\ body[1].kind = "value"

HasOpenBrace(seg) == seg.kind = "open" \/ (seg.kind = "value" /\ IsDict(seg.value))
HasCloseBrace(seg) == seg.kind = "close" \/ (seg.kind = "value" /\ IsDict(seg.value))

\* discovery.py 112-116: the span from the first { to the last }, which
\* decodes exactly when it is one object's stretch
SpanDecodes(body) ==
    /\ \E n \in DOMAIN body : HasOpenBrace(body[n])
    /\ \E n \in DOMAIN body : HasCloseBrace(body[n])
    /\ LET start == CHOOSE n \in DOMAIN body :
                       HasOpenBrace(body[n]) /\ \A m \in 1..(n - 1) : ~HasOpenBrace(body[m])
           end == CHOOSE n \in DOMAIN body :
                       HasCloseBrace(body[n]) /\ \A m \in (n + 1)..Len(body) : ~HasCloseBrace(body[m])
       IN  start = end /\ body[start].kind = "value"

SpanValue(body) == body[CHOOSE n \in DOMAIN body : HasOpenBrace(body[n])].value

\* discovery.py 105-122: `parsed`
ParsePlan(request, body) ==
    IF Decodes(body) THEN body[1].value
    ELSE IF SpanDecodes(body) THEN SpanValue(body)
    ELSE create_fallback_pipeline(request)

\* discovery.py 148-160
find_edge(edge_list, src_server, src_tool, tgt_server, tgt_tool) ==
    LET exact == {n \in DOMAIN edge_list :
                     /\ edge_list[n].source_server = src_server
                     /\ edge_list[n].source_tool = src_tool
                     /\ edge_list[n].target_server = tgt_server
                     /\ edge_list[n].target_tool = tgt_tool}
        by_server == {n \in DOMAIN edge_list :
                         /\ edge_list[n].source_server = src_server
                         /\ edge_list[n].target_server = tgt_server}
    IN  IF exact /= {} THEN <<edge_list[CHOOSE n \in exact : \A m \in exact : n <= m]>>
        ELSE IF by_server /= {}
        THEN <<edge_list[CHOOSE n \in by_server : \A m \in by_server : n <= m]>>
        ELSE NoEdge

\* discovery.py 132: a step_data that names its server and its tool
NamesBoth(step_data) ==
    Truthy(GetOr(step_data, "server", "")) /\ Truthy(GetOr(step_data, "tool", ""))

\* discovery.py 127-143, from the n-th parsed step on; `raised`: prev["server"]
\* or prev["tool"] raised KeyError
RECURSIVE BuildSteps(_, _, _)
BuildSteps(parsed_steps, n, edge_list) ==
    IF n > Len(parsed_steps) THEN [raised |-> FALSE, steps |-> << >>]
    ELSE IF ~NamesBoth(parsed_steps[n]) THEN BuildSteps(parsed_steps, n + 1, edge_list)
    ELSE IF n > 1 /\ (~Has(parsed_steps[n - 1], "server") \/ ~Has(parsed_steps[n - 1], "tool"))
    THEN [raised |-> TRUE, steps |-> << >>]
    ELSE LET edge == IF n > 1
                     THEN find_edge(edge_list, parsed_steps[n - 1]["server"],
                                    parsed_steps[n - 1]["tool"],
                                    parsed_steps[n]["server"], parsed_steps[n]["tool"])
                     ELSE NoEdge
             rest == BuildSteps(parsed_steps, n + 1, edge_list)
         IN  [raised |-> rest.raised,
              steps |-> IF rest.raised THEN << >>
                        ELSE <<PipelineStep(parsed_steps[n]["server"],
                                            parsed_steps[n]["tool"], edge)>> \o rest.steps]

\* what discover gives back: a Pipeline, or an exception
Pipeline(steps, confidence) == [raised |-> FALSE, steps |-> steps, confidence |-> confidence]
DiscoverRaised == [raised |-> TRUE, steps |-> << >>, confidence |-> 0]

\* discovery.py 46-146
discover(request, answer, edge_list) ==
    IF answer.raises THEN DiscoverRaised
    ELSE LET parsed == ParsePlan(request, CleanFences(answer)) IN
         IF ~IsDict(parsed) THEN DiscoverRaised
         ELSE LET built == BuildSteps(GetOr(parsed, "steps", << >>), 1, edge_list) IN
              IF built.raised THEN DiscoverRaised
              ELSE Pipeline(built.steps, GetOr(parsed, "overall_confidence", 50))

-----------------------------------------------------------------------------
(* DiscoveryEngine.discover as a state machine *)

\* 'fetch https://x.com and post to Slack'
FetchAndPost ==
    <<"f", "e", "t", "c", "h", " ", "h", "t", "t", "p", "s", ":", "/", "/", "x", ".", "c",
      "o", "m", " ", "a", "n", "d", " ", "p", "o", "s", "t", " ", "t", "o", " ", "S", "l",
      "a", "c", "k">>

Requests ==
    { FetchAndPost,
      <<"C", "o", "n", "d", "e", "n", "s", "e", " ", "i", "t", ",", " ", "T", "R", "A",
        "N", "S", "L", "A", "T", "E", " ", "i", "t">>,
      <<"H", "o", "w", " ", "d", "o", " ", "t", "h", "e", "y", " ", "F", "E", "E", "L",
        "?", " ", "S", "e", "n", "d", " ", "a", " ", "b", "r", "i", "e", "f">>,
      <<"s", "t", "a", "y", " ", "t", "o", "g", "e", "t", "h", "e", "r">>,
      <<"h", "e", "l", "l", "o">> }

\* the step dicts an answer is made of
StepData(server, tool) == [server |-> server, tool |-> tool, reason |-> "because"]
FetchStep == StepData("web-fetcher", "fetch_url")
SummarizeStep == StepData("summarizer", "summarize_text")
SlackStep == StepData("slack-sender", "send_slack_message")

Plan(steps) == [steps |-> steps, overall_confidence |-> 85, explanation |-> "plan"]

Plans ==
    { Plan(<<SummarizeStep, SlackStep>>),
      Plan(<<FetchStep, SummarizeStep, SlackStep>>),
      Plan(<<StepData("summarizer", "condense"), SlackStep>>),
      Plan(<<StepData("summarizer", ""), SlackStep>>),
      Plan(<<StepData("", "summarize_text"), SlackStep>>),
      Plan(<<[tool |-> "summarize_text"], SlackStep>>),
      Plan(<<[server |-> "summarizer"], SlackStep>>),
      Plan(<<SummarizeStep, StepData("", ""), SlackStep>>),
      Plan(<<SummarizeStep, SlackStep, [tool |-> "fetch_url"]>>),
      Plan(<<SummarizeStep, [reason |-> "because"]>>),
      Plan(<< >>),
      [steps |-> <<FetchStep>>],
      EmptyDict }

Answers ==
    {Answer(f, <<Value(plan)>>) : f \in BOOLEAN, plan \in Plans}
    \cup { AnswerRaises,
           Answer(FALSE, <<Value(NonObject)>>),
           Answer(FALSE, <<Text>>),
           Answer(TRUE, <<Text>>),
           Answer(FALSE, <<Open, Text>>),
           Answer(FALSE, <<Close, Text, Open>>),
           Answer(FALSE, <<Text, Open, Text, Close>>),
           Answer(FALSE, <<Text, Value(NonObject)>>),
           Answer(FALSE, <<Text, Value(Plan(<<SummarizeStep, SlackStep>>)), Text>>),
           Answer(FALSE, <<Value(Plan(<<FetchStep>>)), Text, Value(Plan(<<SlackStep>>))>>) }

SummarizerOtherToSlack ==
    GraphEdge("summarizer", "extract", "slack-sender", "send_slack_message", "direct", 60, "")
SummarizeToSlack ==
    GraphEdge("summarizer", "summarize_text", "slack-sender", "send_slack_message",
              "translatable", 90, "summary to text")
FetchToSlack ==
    GraphEdge("web-fetcher", "fetch_url", "slack-sender", "send_slack_message", "direct", 80, "")
FetchToSummarize ==
    GraphEdge("web-fetcher", "fetch_url", "summarizer", "summarize_text", "direct", 95, "")

\* DiscoveryEngine(servers, edges): the edge lists the engine is made with
EdgeLists ==
    { << >>,
      <<SummarizerOtherToSlack, SummarizeToSlack, FetchToSlack, FetchToSummarize>>,
      <<SummarizeToSlack, SummarizerOtherToSlack>>,
      <<SummarizerOtherToSlack, FetchToSummarize>> }

\* discovery.py 42-44
InitDiscover ==
    /\ ExecIdle
    /\ db_edges = << >> /\ db_last = << >> /\ gpc = "idle"
    /\ incremental = FALSE /\ build_servers = {} /\ candidates = << >>
    /\ start_edges = << >> /\ validated = {} /\ builds = 0 /\ last_build = "none"
    /\ tool_keys = << >> /\ output_embeddings = << >> /\ input_embeddings = << >>
    /\ embed = "A"
    /\ judged = << >>
    /\ edges \in EdgeLists
    /\ RegistryIdle /\ DiscoveryIdle /\ TranslatorIdle /\ OthersIdle

\* discovery.py 46-146: one call of discover
Discover ==
    /\ \E request \in Requests, answer \in Answers :
          /\ user_request' = request
          /\ raw' = <<answer>>
          /\ discovered' = <<discover(request, answer, edges)>>
    /\ UNCHANGED <<execVars, graphVars, registryVars, translatorVars, otherVars>>

NextDiscover == Discover

SpecDiscover == InitDiscover /\ [][NextDiscover]_vars

-----------------------------------------------------------------------------
(* Properties of discover *)

\* the call made and its outcome
Called == discovered /= << >>
Returned == Called /\ ~discovered[1].raised
TheAnswer == raw[1]
ThePipeline == discovered[1]

\* the answer decodes neither as a whole nor from its first { to its last }
Undecodable(answer) ==
    /\ ~answer.raises
    /\ ~Decodes(answer.body)
    /\ ~SpanDecodes(answer.body)

\* the word occurs in the text, letters compared without regard to case
OccursIgnoringCase(text, w) ==
    \E k \in 0..(Len(text) - Len(w)) :
       \A j \in DOMAIN w : LowerChar(text[k + j]) = LowerChar(w[j])

\* the keyword sets that occur in the request
Hits == {n \in DOMAIN FallbackRules :
            \E k \in DOMAIN FallbackRules[n].keywords :
               OccursIgnoringCase(user_request, FallbackRules[n].keywords[k])}

\* C13: when the oracle's answer decodes as JSON neither directly nor from
\* its outermost {...} span, discover returns the keyword pipeline: one step
\* per keyword set occurring in the request without regard to case, in the
\* order fetch, translate, summarize, sentiment, delivery, with confidence
\* 0.7; for 'fetch https://x.com and post to Slack' that is a fetch step and
\* then a delivery step.
C13_FallbackPipelineFromKeywords ==
    (Called /\ Undecodable(TheAnswer)) =>
        /\ Returned
        /\ ThePipeline.confidence = 70
        /\ Len(ThePipeline.steps) = Cardinality(Hits)
        /\ \A k \in DOMAIN ThePipeline.steps :
              \E n \in Hits :
                 /\ Cardinality({m \in Hits : m < n}) = k - 1
                 /\ ThePipeline.steps[k].server_name = FallbackRules[n].step.server
                 /\ ThePipeline.steps[k].tool_name = FallbackRules[n].step.tool
        /\ user_request = FetchAndPost =>
              /\ Len(ThePipeline.steps) = 2
              /\ ThePipeline.steps[1].server_name = "web-fetcher"
              /\ ThePipeline.steps[1].tool_name = "fetch_url"
              /\ ThePipeline.steps[2].server_name = "slack-sender"
              /\ ThePipeline.steps[2].tool_name = "send_slack_message"

\* the request 'fetch https://x.com and post to Slack' got an answer with
\* braces that does not decode, and the pipeline has its two steps
C13_Witness ==
    /\ Returned
    /\ user_request = FetchAndPost
    /\ TheAnswer = Answer(FALSE, <<Text, Open, Text, Close>>)
    /\ Len(ThePipeline.steps) = 2
    /\ ThePipeline.confidence = 70

\* C14: in every Pipeline discover returns the first step has no incoming
\* edge, whatever step list the oracle gave.
C14_FirstStepHasNoEdge ==
    (Returned /\ ThePipeline.steps /= << >>) => ThePipeline.steps[1].edge = NoEdge

\* the step list of a decoded answer
ParsedSteps == GetOr(ParsePlan(user_request, CleanFences(TheAnswer)), "steps", << >>)
DecodedObject ==
    /\ Called /\ ~TheAnswer.raises
    /\ IsDict(ParsePlan(user_request, CleanFences(TheAnswer)))

\* the parsed steps that name a server and an operation, in order
ValidSteps == SelectSeq(ParsedSteps, LAMBDA d : Has(d, "server") /\ Has(d, "tool")
                                                 /\ d["server"] /= "" /\ d["tool"] /= "")

\* C15: a parsed step without a server name or without an operation name
\* (key missing or value empty), wherever it is in the list, is left out
\* without discover raising, and the valid steps are returned in order.
C15_InvalidStepsAreSkipped ==
    DecodedObject =>
        /\ Returned
        /\ Len(ThePipeline.steps) = Len(ValidSteps)
        /\ \A k \in DOMAIN ThePipeline.steps :
              /\ ThePipeline.steps[k].server_name = ValidSteps[k]["server"]
              /\ ThePipeline.steps[k].tool_name = ValidSteps[k]["tool"]

\* the stored edges from step a to step b: exact matches, matches by server
ExactMatches(a, b) ==
    {n \in DOMAIN edges : /\ edges[n].source_server = a.server_name
                          /\ edges[n].source_tool = a.tool_name
                          /\ edges[n].target_server = b.server_name
                          /\ edges[n].target_tool = b.tool_name}
ServerMatches(a, b) ==
    {n \in DOMAIN edges : /\ edges[n].source_server = a.server_name
                          /\ edges[n].target_server = b.server_name}

\* C16: each pipeline step after the first carries the stored edge that
\* matches the previous step's server and operation and its own exactly,
\* when there is one; only when there is none it carries the first edge in
\* list order that matches the two server names; when there is none either
\* its edge is null.
C16_EdgeExactThenByServer ==
    Returned =>
        \A k \in 2..Len(ThePipeline.steps) :
           LET a == ThePipeline.steps[k - 1]
               b == ThePipeline.steps[k]
           IN  /\ ExactMatches(a, b) /= {} =>
                     /\ b.edge /= NoEdge
                     /\ \E n \in ExactMatches(a, b) : b.edge[1] = edges[n]
               /\ (ExactMatches(a, b) = {} /\ ServerMatches(a, b) /= {}) =>
                     /\ b.edge /= NoEdge
                     /\ \E n \in ServerMatches(a, b) :
                           /\ b.edge[1] = edges[n]
                           /\ \A m \in ServerMatches(a, b) : n <= m
               /\ ServerMatches(a, b) = {} => b.edge = NoEdge

-----------------------------------------------------------------------------
(* TranslationEngine and the context merge under their callers *)

\* the edges whose translation is asked for
TranslatedEdges == {SummarizerToNotifier, SummarizerToSlack}

\* the source samples handed to generate_spec
Samples == {[summary |-> "short"], [summary |-> "long"]}

\* the specs handed to apply_translation
Specs ==
    { [mappings |-> << >>],
      [mappings |-> <<Mapping("channel", None, "context")>>],
      [mappings |-> <<Mapping("message_body", "summary", "output"),
                      Mapping("channel", "chan", "context")>>],
      [mappings |-> <<Mapping("text", "content", "output"), Mapping("text", "summary", "output")>>] }

SourceOutputs ==
    { EmptyDict, NonObject, [summary |-> "short"], [summary |-> ""],
      [summary |-> None, content |-> "page"], [summary |-> "", content |-> "page"] }

RunContexts ==
    { EmptyDict, [channel |-> "#team"], [channel |-> ""], [channel |-> None, chan |-> "#ops"],
      [chan |-> ""] }

\* the inputs, contexts and target tools of the merge
MergeInputs ==
    { EmptyDict, [channel |-> "#general"], [text |-> "short"], [url |-> ""],
      [message_body |-> "short", channel |-> ""] }
MergeContexts ==
    { EmptyDict, [channel |-> "#team"], [channel |-> "#team", url |-> "https://e.com"],
      [type |-> "digest", text |-> "other"], [url |-> "https://e.com", text |-> ""] }
MergeKeyOrder == <<"channel", "url", "type", "text">>
MergeTools ==
    { << >>, <<ToolInfo("notify", <<"channel", "message_body">>, {"channel", "message_body"})>>,
      <<ToolInfo("summarize_text", <<"text">>, {"text", "max_sentences"})>>,
      <<ToolInfo("fetch", <<"source_url">>, {"source_url"})>> }

\* executor.py 30-32: the first PipelineExecutor and its TranslationEngine
InitTranslate ==
    /\ ExecIdle
    /\ GraphIdle
    /\ RegistryIdle /\ DiscoveryIdle /\ OthersIdle
    /\ asked_log = << >> /\ returned_spec = << >> /\ applied = << >> /\ merge_call = << >>
    /\ engines = 1

TranslateFrame ==
    /\ UNCHANGED <<pipeline, initial_input, context, pc, i, results, current_data, all_outputs,
                   step_input, pending, sessions_open, invocations, connections>>
    /\ UNCHANGED <<graphVars, registryVars, discoveryVars, otherVars>>

\* translator.py 15-72: one call of generate_spec
GenerateSpec ==
    /\ \E edge \in TranslatedEdges, sample \in Samples, reply \in OracleReplies :
          LET g == generate_spec(edge, sample,
                                 TargetSchema(Servers[edge.target_server], edge.target_tool),
                                 specs_cache, reply)
          IN  /\ g.asked = 0 \/ Len(asked_log) < MaxAsks
              /\ specs_cache' = g.cache
              /\ oracle_asked' = oracle_asked + g.asked
              /\ asked_log' = IF g.asked = 1
                              THEN Append(asked_log, [key |-> CacheKey(edge), ok |-> ~g.raised,
                                                      spec |-> g.spec, engine |-> engines])
                              ELSE asked_log
              /\ returned_spec' = <<[key |-> CacheKey(edge), raised |-> g.raised, spec |-> g.spec,
                                     asked |-> g.asked, reply |-> reply, sample |-> sample,
                                     engine |-> engines]>>
    /\ applied' = << >>
    /\ merge_call' = << >>
    /\ UNCHANGED engines
    /\ TranslateFrame

\* api.py 289, executor.py 30-32: the next request makes a new
\* PipelineExecutor, and with it a new TranslationEngine
NewExecutor ==
    /\ engines < MaxEngines
    /\ engines' = engines + 1
    /\ specs_cache' = EmptyDict
    /\ returned_spec' = << >>
    /\ applied' = << >>
    /\ merge_call' = << >>
    /\ UNCHANGED <<asked_log, oracle_asked>>
    /\ TranslateFrame

\* translator.py 74-98: one call of apply_translation
ApplyTranslation ==
    /\ \E spec \in Specs, source_output \in SourceOutputs, ctx \in RunContexts :
          LET a == apply_translation(spec, source_output, ctx)
          IN  applied' = <<[spec |-> spec, source_output |-> source_output, context |-> ctx,
                            raised |-> a.raised, result |-> a.value]>>
    /\ returned_spec' = << >>
    /\ merge_call' = << >>
    /\ UNCHANGED <<asked_log, engines, specs_cache, oracle_asked>>
    /\ TranslateFrame

\* executor.py 102-107: one context merge
MergeStep ==
    /\ \E input \in MergeInputs, ctx \in MergeContexts, server_tool \in MergeTools :
          merge_call' = <<[input |-> input, context |-> ctx, tool |-> server_tool,
                           result |-> MergeContext(KeysOf(ctx, MergeKeyOrder), ctx, input,
                                                   server_tool)]>>
    /\ returned_spec' = << >>
    /\ applied' = << >>
    /\ UNCHANGED <<asked_log, engines, specs_cache, oracle_asked>>
    /\ TranslateFrame

\* generate_spec over the executors of one process
NextTranslate ==
    \/ GenerateSpec
    \/ NewExecutor

SpecTranslate == InitTranslate /\ [][NextTranslate]_vars

\* apply_translation over its arguments
NextApply == ApplyTranslation

SpecApply == InitTranslate /\ [][NextApply]_vars

\* the context merge over its arguments
NextMerge == MergeStep

SpecMerge == InitTranslate /\ [][NextMerge]_vars

-----------------------------------------------------------------------------
(* Properties of the translation engine and of the context merge *)

\* C17: apply_translation never writes a key whose resolved value is null
\* or the empty string: whatever the spec, the source output and the run
\* context, every key of the result has a value that is neither.
C17_NoNullOrEmptyValueWritten ==
    (applied /= << >> /\ ~applied[1].raised) =>
        \A k \in DOMAIN applied[1].result :
           applied[1].result[k] /= None /\ applied[1].result[k] /= ""

\* a spec with two mappings, one resolving to the empty string and left
\* out, one resolving to a value and written
C17_Witness ==
    /\ applied /= << >>
    /\ ~applied[1].raised
    /\ Len(applied[1].spec.mappings) = 2
    /\ applied[1].source_output = [summary |-> "", content |-> "page"]
    /\ applied[1].result = [text |-> "page"]

\* C18: within one TranslationEngine, once generate_spec has succeeded for
\* an edge, no later call with the same compound key asks the oracle, and
\* every such call returns that same spec, whatever source sample and
\* whatever oracle answer it would have met.
C18_SpecCachedPerEngine ==
    /\ \A m, n \in DOMAIN asked_log :
          (m < n /\ asked_log[m].key = asked_log[n].key
                 /\ asked_log[m].engine = asked_log[n].engine) => ~asked_log[m].ok
    /\ returned_spec /= << >> =>
          \A m \in DOMAIN asked_log :
             (asked_log[m].ok /\ asked_log[m].key = returned_spec[1].key
                              /\ asked_log[m].engine = returned_spec[1].engine)
                 => /\ ~returned_spec[1].raised
                    /\ returned_spec[1].spec = asked_log[m].spec

\* a call for a key generated before, with another sample and an oracle
\* that would have raised, returned the spec without asking
C18_Witness ==
    /\ returned_spec /= << >>
    /\ returned_spec[1].asked = 0
    /\ ~returned_spec[1].raised
    /\ returned_spec[1].reply = OracleRaise
    /\ returned_spec[1].sample = [summary |-> "long"]
    /\ \E m \in DOMAIN asked_log :
          /\ asked_log[m].ok /\ asked_log[m].key = returned_spec[1].key
          /\ asked_log[m].spec = returned_spec[1].spec
          /\ Len(asked_log[m].spec.mappings) = 2

\* C35: a generate_spec call that fails, by an oracle error or by a response
\* that json.loads rejects, has asked the oracle and stores nothing in the
\* spec cache, and the next call for the same edge asks the oracle again
C35_FailedSpecIsNotCached ==
    [][/\ (returned_spec' /= << >> /\ returned_spec' /= returned_spec
           /\ returned_spec'[1].raised) =>
             /\ returned_spec'[1].reply.kind \in {"raise", "garbled"}
             /\ returned_spec'[1].asked = 1
             /\ specs_cache' = specs_cache
             /\ returned_spec'[1].key \notin DOMAIN specs_cache'
       /\ (returned_spec /= << >> /\ returned_spec[1].raised
           /\ returned_spec' /= << >> /\ returned_spec'[1].key = returned_spec[1].key) =>
             returned_spec'[1].asked = 1
       /\ (returned_spec' /= << >> /\ returned_spec' /= returned_spec
           /\ returned_spec'[1].asked = 1
           /\ returned_spec'[1].reply.kind \in {"raise", "garbled"}) =>
             returned_spec'[1].raised
      ]_vars

\* a call that asked the oracle failed, and the next call that asked it, for
\* the same edge in the same engine, got a spec, which is now cached
C35_Witness ==
    /\ Len(asked_log) = 2
    /\ asked_log[1].key = asked_log[2].key
    /\ asked_log[1].engine = asked_log[2].engine
    /\ ~asked_log[1].ok /\ asked_log[2].ok
    /\ returned_spec /= << >> /\ returned_spec[1].asked = 1
    /\ returned_spec[1].key \in DOMAIN specs_cache
    /\ specs_cache[returned_spec[1].key] = returned_spec[1].spec

\* C19: in one process, over successive pipeline runs, the spec generated
\* for an edge key is reused: after the oracle has given a spec for a key
\* it is not asked about that key again.
C19_SpecReusedAcrossRuns ==
    \A m, n \in DOMAIN asked_log :
       (m < n /\ asked_log[m].key = asked_log[n].key) => ~asked_log[m].ok

\* C20: the context merge overwrites no key of the resolved input; it adds
\* a context key only if the input lacks it and the key's name occurs in the
\* text of the target operation's input schema; every key of the input
\* keeps its value.
C20_MergeAddsOnlyAbsentSchemaKeys ==
    merge_call /= << >> =>
        LET c == merge_call[1] IN
        /\ \A k \in DOMAIN c.input : Has(c.result, k) /\ c.result[k] = c.input[k]
        /\ \A k \in (DOMAIN c.result) \ (DOMAIN c.input) :
              /\ Has(c.context, k)
              /\ c.result[k] = c.context[k]
              /\ c.tool /= << >>
              /\ KeyInSchemaText(k, c.tool[1].input_schema)
        /\ \A k \in DOMAIN c.context :
              (~Has(c.input, k) /\ c.tool /= << >> /\ KeyInSchemaText(k, c.tool[1].input_schema))
                  => Has(c.result, k)

\* the input has a channel of its own, the context another one and a url
\* whose name occurs inside source_url: the channel is kept, the url added
C20_Witness ==
    /\ merge_call /= << >>
    /\ merge_call[1].input = [channel |-> "#general"]
    /\ merge_call[1].context = [channel |-> "#team", url |-> "https://e.com"]
    /\ merge_call[1].result = [channel |-> "#general", url |-> "https://e.com"]

-----------------------------------------------------------------------------
(* Sessions and tool replies of the executor *)

\* the step whose session was opened last
LastConnected == connections[Len(connections)]

\* C27: at most one tool-server session is open at any time; it is the
\* session of the step being invoked, and it is closed before the step's
\* result is recorded and before the next step's input is prepared
C27_OneSessionClosedBeforeRecord ==
    /\ sessions_open <= 1
    /\ sessions_open = 1 => (pc \in {"call", "close"} /\ LastConnected = i)
    /\ pc \in {"loop", "connect", "record", "done", "raised"} => sessions_open = 0
    /\ \A j \in DOMAIN connections, k \in DOMAIN connections : j < k => connections[j] < connections[k]

\* the call of a step raised inside its session, the session is closed and
\* the failed result is about to be recorded
C27_Witness ==
    /\ pc = "record" /\ pending.raised
    /\ connections /= << >> /\ LastConnected = i
    /\ sessions_open = 0

\* the result a step of the run appends
Recorded == results'[Len(results')]

\* the server's reply had no content, or its text was no JSON
BodyMissingOrGarbled == pc = "record" /\ pending.reply.kind \in {"none", "text"}

\* C28, as claimed: a reply whose body is missing or is no JSON is recorded
\* as a successful step whose output is the empty object
C28_MissingOrGarbledBodyGivesEmptyOutput ==
    [][BodyMissingOrGarbled =>
          /\ Len(results') = Len(results) + 1
          /\ Recorded.success
          /\ Recorded.output_data = EmptyDict]_vars

\* C28, amended: a reply with no body is recorded as a successful step with
\* output {}, and a reply whose text is no JSON as a successful step whose
\* output is {"result": <the text>}; the output becomes current_data
C28_MissingBodyEmptyGarbledBodyWrapped ==
    [][BodyMissingOrGarbled =>
          /\ Len(results') = Len(results) + 1
          /\ Recorded.success /\ Recorded.error = None
          /\ Recorded.output_data =
                IF pending.reply.kind = "none" THEN EmptyDict
                ELSE [result |-> pending.reply.text]
          /\ current_data' = Recorded.output_data]_vars

\* a run recorded a step answered with no body and a step answered with
\* text that is no JSON
C28_Witness ==
    \E j \in DOMAIN results, k \in DOMAIN results :
        /\ results[j].success /\ results[j].output_data = EmptyDict
        /\ results[k].success /\ results[k].output_data = [result |-> "plain words"]

-----------------------------------------------------------------------------
(* Runs of the executor that end in the message-delivery sink or in a      *)
(* translated step whose tool requires `text`                               *)

SentimentToSlack ==
    GraphEdge("sentiment-analyzer", "analyze_sentiment", "slack-sender", "send_slack_message",
              "translatable", 85, "")

SentimentToSummarizer ==
    GraphEdge("sentiment-analyzer", "analyze_sentiment", "summarizer", "summarize_text",
              "translatable", 60, "")

SummarizerToSentiment ==
    GraphEdge("summarizer", "summarize_text", "sentiment-analyzer", "analyze_sentiment",
              "direct", 90, "summary to text")

Summarize == PipelineStep("summarizer", "summarize_text", NoEdge)
Analyze == PipelineStep("sentiment-analyzer", "analyze_sentiment", NoEdge)

ChainPipelines ==
    { <<Summarize, PipelineStep("slack-sender", "send_slack_message", <<SummarizerToSlack>>)>>,
      <<Analyze, PipelineStep("slack-sender", "send_slack_message", <<SentimentToSlack>>)>>,
      <<Summarize, PipelineStep("ghost", "haunt", NoEdge),
        PipelineStep("slack-sender", "send_slack_message", <<SummarizerToSlack>>)>>,
      <<Summarize, PipelineStep("sentiment-analyzer", "analyze_sentiment", <<SummarizerToSentiment>>)>>,
      <<Analyze, PipelineStep("summarizer", "summarize_text", <<SentimentToSummarizer>>)>> }

InitChain == pipeline \in ChainPipelines /\ ExecStart

SpecChain == InitChain /\ [][NextExec]_vars

\* the step about to be prepared has an edge and a registered server
EdgeStep ==
    /\ AtStep
    /\ pipeline[i].edge /= NoEdge
    /\ pipeline[i].server_name \in DOMAIN Servers

\* the outputs recorded so far are all objects
ObjectsSoFar == \A j \in DOMAIN results : IsDict(results[j].output_data)

\* the most recent successful output of each server, read off the results
LatestOutputs ==
    LET done(name) == {j \in DOMAIN results :
                          results[j].success /\ pipeline[results[j].step].server_name = name}
        names == {pipeline[results[j].step].server_name : j \in DOMAIN results}
    IN  [name \in {n \in names : done(n) /= {}} |->
            results[CHOOSE j \in done(name) : \A k \in done(name) : k <= j].output_data]

\* C29: a step with an edge whose server is slack-sender is prepared
\* without the TranslationEngine; its input is exactly channel, taken from
\* the context, and message_body, composed from the most recent successful
\* output of each earlier server (stated for runs whose outputs so far are
\* all objects)
C29_SinkInputIsChannelAndMessageBody ==
    [][(EdgeStep /\ pipeline[i].server_name = "slack-sender" /\ ObjectsSoFar) =>
          /\ oracle_asked' = oracle_asked /\ specs_cache' = specs_cache
          /\ pc' = "connect"
          /\ DOMAIN step_input' = {"channel", "message_body"}
          /\ step_input'["channel"] = GetOr(context, "channel", "#team-updates")
          /\ all_outputs = LatestOutputs
          /\ step_input'["message_body"]
                = build_slack_message(LatestOutputs, context).value["message_body"]]_vars

\* the value the claim gives a repaired `text`: the first non-empty alias of
\* the previous output, or else the previous output as text
ExpectedText(data) ==
    LET hits == {k \in DOMAIN TEXT_ALIASES :
                    /\ TEXT_ALIASES[k] \in DOMAIN data
                    /\ data[TEXT_ALIASES[k]] \notin {"", None}}
    IN  IF hits = {} THEN Dumps(data)
        ELSE data[TEXT_ALIASES[CHOOSE k \in hits : \A h \in hits : k <= h]]

\* C30: a translated step whose tool requires `text` is invoked with a
\* non-empty `text`: the first non-empty alias of the previous output or the
\* previous output as text
C30_RequiredTextFilledByRepair ==
    [][(/\ EdgeStep /\ pipeline[i].server_name /= "slack-sender"
        /\ "text" \in Range(TargetSchema(Servers[pipeline[i].server_name],
                                         pipeline[i].tool_name).required)) =>
          /\ pc' = "connect"
          /\ "text" \in DOMAIN step_input'
          /\ step_input'["text"] \notin {"", None}
          /\ step_input'["text"] = ExpectedText(current_data)]_vars

-----------------------------------------------------------------------------
(* EmbeddingIndex on its own: index_server and find_candidates called in   *)
(* any order on one index, embeddings.py 70-129.                           *)

MaxIndexCalls == 3

SlackV1 == <<"slack", "v1">>
SlackV2 == <<"slack", "v2">>

\* the servers handed to index_server and their tools
IndexServers == {Fetcher, Summarizer, SlackV1, SlackV2}

IndexedTools(server_name) ==
    IF server_name = Fetcher THEN <<<<"fetch_url">>>>
    ELSE IF server_name = Summarizer THEN <<<<"summarize_text">>, <<"count_words">>>>
    ELSE <<<<"send_slack_message">>>>

\* a changed description or summary changes what the embedding oracle answers
IndexOracles == {"A", "C"}

\* thresholds in hundredths: -1.1, 0.45 and 1.1
Thresholds == {-110, BuildThreshold, 110}

TopKs == {1, DefaultTopK}

\* embeddings.py 77-91: the get_embedding calls index_server makes for one tool
ToolCalls(index, server_name, tool_name) ==
    LET key == ToolKey(server_name, tool_name) IN
    IF AlreadyIndexed(index, key) THEN << >>
    ELSE <<[key |-> key, side |-> "out"], [key |-> key, side |-> "in"]>>

\* the get_embedding calls of one index_server call
RECURSIVE ServerCalls(_, _, _, _)
ServerCalls(index, table, server_name, tools) ==
    IF tools = << >> THEN << >>
    ELSE ToolCalls(index, server_name, Head(tools))
         \o ServerCalls(IndexTool(index, table, server_name, Head(tools)), table,
                        server_name, Tail(tools))

InitIndex ==
    /\ ExecIdle
    /\ GraphIdle
    /\ RegistryIdle /\ DiscoveryIdle /\ TranslatorIdle /\ OthersIdle

IndexFrame ==
    /\ UNCHANGED <<db_edges, db_last, edges, gpc, incremental, build_servers, candidates,
                   start_edges, validated, builds, last_build, judged>>
    /\ UNCHANGED <<execVars, registryVars, discoveryVars, translatorVars, oracleVars, apiVars>>

\* embeddings.py 70-93: one call of index_server
IndexServer ==
    /\ Len(index_calls) < MaxIndexCalls
    /\ \E server_name \in IndexServers, table \in IndexOracles :
          LET index == index_server(TheIndex, table, server_name, IndexedTools(server_name)) IN
          /\ output_embeddings' = index.output_embeddings
          /\ input_embeddings' = index.input_embeddings
          /\ tool_keys' = index.tool_keys
          /\ embed' = table
          /\ embed_log' = embed_log \o ServerCalls(TheIndex, table, server_name,
                                                   IndexedTools(server_name))
          /\ index_calls' = Append(index_calls, [server |-> server_name, table |-> table])
    /\ UNCHANGED found
    /\ IndexFrame

\* embeddings.py 102-129: one call of find_candidates
FindCandidates ==
    /\ \E threshold \in Thresholds, top_k \in TopKs :
          found' = <<[threshold |-> threshold, top_k |-> top_k, index |-> TheIndex,
                      indexed |-> Len(index_calls),
                      result |-> find_candidates(TheIndex, threshold, top_k)]>>
    /\ UNCHANGED <<tool_keys, output_embeddings, input_embeddings, embed, embed_log,
                   index_calls>>
    /\ IndexFrame

NextIndex == IndexServer \/ FindCandidates

SpecIndex == InitIndex /\ [][NextIndex]_vars

-----------------------------------------------------------------------------
(* Properties of the embedding index *)

\* the (server, operation) pairs handed to index_server in the calls `made`,
\* with their keys
OpsOf(made) ==
    UNION {{[server |-> index_calls[c].server,
             tool |-> IndexedTools(index_calls[c].server)[t],
             key |-> ToolKey(index_calls[c].server, IndexedTools(index_calls[c].server)[t])] :
               t \in DOMAIN IndexedTools(index_calls[c].server)} : c \in made}

Searched == found /= << >>
Result == found[1].result
ResultPairs == {<<Result[j].source_key, Result[j].target_key>> : j \in DOMAIN Result}

\* the operations indexed when find_candidates was called
IndexedOps == OpsOf(1..found[1].indexed)

\* the similarity of a source operation's output and a target operation's
\* input in the index find_candidates ran on
PairSim(source_key, target_key) ==
    Cosine(found[1].index.output_embeddings[source_key],
           found[1].index.input_embeddings[target_key])

\* C21: a find_candidates call whose threshold is below every similarity
\* returns every ordered pair of indexed operations of different servers
\* (stated for the default top_k, which is beyond the number of pairs here)
C21_LowThresholdReturnsAllCrossServerPairs ==
    (Searched /\ found[1].threshold = -110 /\ found[1].top_k = DefaultTopK) =>
        \A a \in IndexedOps, b \in IndexedOps :
            a.server /= b.server => <<a.key, b.key>> \in ResultPairs

\* C22: find_candidates returns no pair of two operations of one server and
\* no pair whose similarity is below the threshold; it returns nothing when
\* the threshold is above every similarity or fewer than two operations
\* are indexed
C22_NoSameServerPairNoPairBelowThreshold ==
    Searched =>
        /\ \A j \in DOMAIN Result :
              /\ ~\E a \in IndexedOps, b \in IndexedOps :
                     /\ a.server = b.server
                     /\ a.key = Result[j].source_key /\ b.key = Result[j].target_key
              /\ Result[j].sim = PairSim(Result[j].source_key, Result[j].target_key)
              /\ SimAtLeast(Result[j].sim, found[1].threshold)
        /\ found[1].threshold = 110 => Result = << >>
        /\ Cardinality(IndexedOps) < 2 => Result = << >>

\* a search on an index that holds two operations of one server and an
\* operation of another returned a pair
C22_Witness ==
    /\ Searched /\ Result /= << >>
    /\ \E a \in IndexedOps, b \in IndexedOps : a.server = b.server /\ a.key /= b.key

\* C39: the key index_server builds for an operation is split back into
\* that operation's server and tool names, by find_candidates (the server
\* part) and by build_edges (both parts), whatever the names
C39_KeySplitsBackIntoServerAndTool ==
    \A a \in OpsOf(DOMAIN index_calls) :
        a.key \in Range(tool_keys) =>
            /\ KeyServer(a.key) = a.server
            /\ SplitKey(a.key) = [server |-> a.server, tool |-> a.tool]

\* the pairs find_candidates collects before it sorts: the two keys start
\* with different server parts and the similarity reaches the threshold
Qualifying ==
    {[source_key |-> a, target_key |-> b, sim |-> PairSim(a, b)] :
        <<a, b>> \in {q \in Range(found[1].index.tool_keys) \X Range(found[1].index.tool_keys) :
                        /\ Head(q[1]) /= Head(q[2])
                        /\ SimAtLeast(PairSim(q[1], q[2]), found[1].threshold)}}

\* the length the cap of find_candidates allows
Cap == found[1].top_k * Len(found[1].index.tool_keys)

\* C23: the returned list is sorted by non-increasing similarity, has at
\* most top_k times the number of indexed operations entries, and keeps the
\* qualifying pairs of highest similarity
C23_SortedCappedKeepsHighest ==
    Searched =>
        /\ \A j \in DOMAIN Result, k \in DOMAIN Result :
              j < k => ~SimGreater(Result[k].sim, Result[j].sim)
        /\ Len(Result) <= Cap
        /\ Range(Result) \subseteq Qualifying
        /\ Cardinality(Range(Result)) = Len(Result)
        /\ Len(Result) = Cap \/ Range(Result) = Qualifying
        /\ \A q \in Qualifying \ Range(Result), j \in DOMAIN Result :
              ~SimGreater(q.sim, Result[j].sim)

\* a search was cut by the cap and returned pairs of different similarity
C23_Witness ==
    /\ Searched
    /\ Len(Result) = Cap /\ Qualifying \ Range(Result) /= {}
    /\ \E j \in DOMAIN Result, k \in DOMAIN Result : SimGreater(Result[j].sim, Result[k].sim)

\* the get_embedding calls made so far for an operation key
CallsFor(log, key) == Cardinality({j \in DOMAIN log : log[j].key = key})

\* C24: a step of the index leaves every indexed operation as it was: its
\* two vectors are kept, no get_embedding call is made for it, and the key
\* list keeps its entries and gains only keys that were not indexed
C24_IndexingIsIdempotentPerKey ==
    [][\A key \in DOMAIN output_embeddings :
          /\ key \in DOMAIN output_embeddings'
          /\ output_embeddings'[key] = output_embeddings[key]
          /\ key \in DOMAIN input_embeddings =>
                /\ key \in DOMAIN input_embeddings'
                /\ input_embeddings'[key] = input_embeddings[key]
          /\ CallsFor(embed_log', key) = CallsFor(embed_log, key)
          /\ Len(tool_keys') >= Len(tool_keys)
          /\ SubSeq(tool_keys', 1, Len(tool_keys)) = tool_keys
          /\ \A j \in (Len(tool_keys) + 1)..Len(tool_keys') :
                tool_keys'[j] \notin DOMAIN output_embeddings]_vars

\* a server was indexed again after the embedding oracle's answers for its
\* operations had changed
C24_Witness ==
    \E j \in DOMAIN index_calls, k \in DOMAIN index_calls :
        /\ j < k
        /\ index_calls[j].server = index_calls[k].server
        /\ index_calls[j].table /= index_calls[k].table
        /\ \E t \in DOMAIN IndexedTools(index_calls[k].server) :
              LET key == ToolKey(index_calls[k].server, IndexedTools(index_calls[k].server)[t])
              IN  Embedding(index_calls[j].table, key, "out")
                    /= Embedding(index_calls[k].table, key, "out")

-----------------------------------------------------------------------------
(* ask_gemini: config.py 11-40.  Time is in seconds.  The text of an       *)
(* exception is the sequence of its words.                                 *)

MaxCalls == 2

\* config.py 20-21: if elapsed < 4: time.sleep(4 - elapsed)
Cooldown == 4

\* config.py 23
max_retries == 5

\* time.time() when the process first calls ask_gemini
StartTimes == {1000, 1003}

\* the time the caller spends between two calls, and the time a request takes
IdleTimes == {0, 1, 5}
Latencies == {0, 2}

\* str(e) of what generate_content raises
ErrorTexts == {<<"429", "Too", "Many", "Requests">>, <<"RESOURCE_EXHAUSTED">>,
               <<"500", "Internal">>}

\* a cooldown that never sleeps
NoSleep(elapsed) == 0

\* config.py 19-21: the sleep before the first attempt
CooldownSleep(elapsed) == IF elapsed < Cooldown THEN Cooldown - elapsed ELSE 0

\* every error taken for a rate limit
AnyError(text) == TRUE

\* config.py 32: "429" in str(e) or "RESOURCE_EXHAUSTED" in str(e)
IsRateLimit(text) == "429" \in Range(text) \/ "RESOURCE_EXHAUSTED" \in Range(text)

\* config.py 33: wait_time = 15 * (attempt + 1)
BackoffWait(n) == 15 * (n + 1)

\* config.py 40
MaxRetriesError == <<"Failed", "after", "max", "retries", "due", "to", "rate", "limiting">>

\* the times of the two latest requests after one sent at time t
Sent(t) == IF requests = << >> THEN <<t>> ELSE <<requests[Len(requests)], t>>

\* config.py 11: _last_call_time = 0, in a process started at some time
InitOracle ==
    /\ ExecIdle
    /\ GraphIdle
    /\ RegistryIdle /\ DiscoveryIdle /\ TranslatorIdle /\ IndexIdle /\ ApiIdle
    /\ clock \in StartTimes
    /\ last_call_time = 0 /\ opc = "idle" /\ attempt = 0
    /\ attempts_log = << >> /\ requests = << >> /\ outcome = NoOutcome /\ calls = 0

OracleFrame == UNCHANGED <<execVars, graphVars, registryVars, discoveryVars, translatorVars,
                           indexVars, apiVars>>

\* config.py 14-27: a call of ask_gemini up to its first request: the
\* cooldown, then attempt 0 sets _last_call_time and sends the request
AskGemini ==
    /\ opc = "idle"
    /\ calls < MaxCalls
    /\ \E idle \in IdleTimes :
          LET now == clock + idle
              sent == now + CooldownSleep(now - last_call_time)
          IN  /\ clock' = sent
              /\ last_call_time' = sent
              /\ requests' = Sent(sent)
    /\ opc' = "waiting"
    /\ attempt' = 0
    /\ attempts_log' = << >>
    /\ outcome' = NoOutcome
    /\ calls' = calls + 1
    /\ OracleFrame

\* config.py 26-30: generate_content returns and ask_gemini returns the text
OracleResponds ==
    /\ opc = "waiting"
    /\ \E latency \in Latencies : clock' = clock + latency
    /\ attempts_log' = Append(attempts_log, [kind |-> "response", error |-> << >>, wait |-> 0])
    /\ outcome' = [kind |-> "response", error |-> << >>]
    /\ opc' = "idle"
    /\ UNCHANGED <<last_call_time, attempt, requests, calls>>
    /\ OracleFrame

\* config.py 31-37: generate_content raises an error that is no rate limit
\* and ask_gemini raises it
OracleFails ==
    /\ opc = "waiting"
    /\ \E latency \in Latencies : clock' = clock + latency
    /\ \E text \in ErrorTexts :
          /\ ~IsRateLimit(text)
          /\ attempts_log' = Append(attempts_log, [kind |-> "error", error |-> text, wait |-> 0])
          /\ outcome' = [kind |-> "raised", error |-> text]
    /\ opc' = "idle"
    /\ UNCHANGED <<last_call_time, attempt, requests, calls>>
    /\ OracleFrame

\* config.py 31-35, 24-27, 40: generate_content raises a rate limit error;
\* ask_gemini sleeps, and then sends the next attempt's request or, after
\* the last attempt, raises
OracleRateLimits ==
    /\ opc = "waiting"
    /\ \E latency \in Latencies, text \in ErrorTexts :
          LET woken == clock + latency + BackoffWait(attempt) IN
          /\ IsRateLimit(text)
          /\ attempts_log' = Append(attempts_log, [kind |-> "error", error |-> text,
                                                   wait |-> BackoffWait(attempt)])
          /\ clock' = woken
          /\ IF attempt + 1 < max_retries
             THEN /\ last_call_time' = woken
                  /\ requests' = Sent(woken)
                  /\ opc' = "waiting"
                  /\ outcome' = outcome
             ELSE /\ UNCHANGED <<last_call_time, requests>>
                  /\ opc' = "idle"
                  /\ outcome' = [kind |-> "raised", error |-> MaxRetriesError]
    /\ attempt' = attempt + 1
    /\ UNCHANGED calls
    /\ OracleFrame

Reply == OracleResponds \/ OracleFails \/ OracleRateLimits

NextOracle == AskGemini \/ Reply

\* generate_content returns or raises
SpecOracle == InitOracle /\ [][NextOracle]_vars /\ WF_vars(Reply)

-----------------------------------------------------------------------------
(* Properties of ask_gemini *)

LastAttempt == attempts_log[Len(attempts_log)]

\* the attempts of the current or latest call: the finished ones and the one
\* whose request is out
Attempts == Len(attempts_log) + (IF opc = "waiting" THEN 1 ELSE 0)

\* a rate-limit signal in the text of an error
Signal(text) == \E w \in Range(text) : w \in {"429", "RESOURCE_EXHAUSTED"}

C26_RequestsSeparatedByCooldown ==
    Len(requests) = 2 => requests[2] - requests[1] >= 4

\* the first request of a call was held back to exactly the cooldown after
\* the request of the call before
C26_Witness ==
    /\ calls = 2 /\ Len(attempts_log) = 0 /\ opc = "waiting"
    /\ Len(requests) = 2 /\ requests[2] - requests[1] = 4

-----------------------------------------------------------------------------
(* Runs of execute whose steps have no incoming edge: what the resolved
   input holds, and which dicts the preparation writes to *)

\* steps without an edge; send_slack_message's schema mentions the context
\* key `channel`
FrameSteps ==
    { PipelineStep("ghost", "haunt", NoEdge),
      PipelineStep("summarizer", "summarize_text", NoEdge),
      PipelineStep("slack-sender", "send_slack_message", NoEdge) }

FramePipelines == UNION {[1..n -> FrameSteps] : n \in 0..MaxSteps}

InitFrame == pipeline \in FramePipelines /\ ExecStart

SpecFrame == InitFrame /\ [][NextExec]_vars

\* the step at hand had its input resolved in this transition
InputResolved == pc = "loop" /\ pc' = "connect"

\* `input` holds every item of `data`, and beyond them only items of `ctx`
CopyExtendedBy(input, data, ctx) ==
    /\ DOMAIN data \subseteq DOMAIN input
    /\ \A k \in DOMAIN input :
          IF k \in DOMAIN data THEN input[k] = data[k]
          ELSE k \in DOMAIN ctx /\ input[k] = ctx[k]

\* C31: the input resolved for a step with no incoming edge holds the items of
\* current_data (the caller's initial input for an entry step) and beyond them
\* only items of the context; no step of a run changes what the caller's
\* initial_input holds, nor the input or output of a result already recorded
C31_NoEdgeInputIsCopyAndNothingMutated ==
    [][ /\ initial_input' = initial_input
        /\ \A k \in DOMAIN results : results'[k] = results[k]
        /\ (InputResolved /\ pipeline[i].edge = NoEdge)
              => /\ CopyExtendedBy(step_input', current_data, context)
                 /\ current_data' = current_data
                 /\ (results = << >> => CopyExtendedBy(step_input', initial_input, context))
      ]_vars

\* a finished run whose entry step got the context's channel merged into its
\* input, after a step that recorded current_data itself, and was followed by
\* another recorded step
C31_Witness ==
    /\ pc = "done"
    /\ Len(results) = 3
    /\ results[1].error = "Server not found"
    /\ results[1].input_data = initial_input
    /\ results[2].success
    /\ pipeline[2].edge = NoEdge
    /\ "channel" \in DOMAIN results[2].input_data
    /\ "channel" \notin DOMAIN initial_input
    /\ results[3].success

-----------------------------------------------------------------------------
(* index_server when a get_embedding call raises, embeddings.py 50-56, 77-93 *)

\* the sides of an operation, in the order index_server embeds them
Sides == {"out", "in"}

\* embeddings.py 84-89: one tool of index_server when the get_embedding call
\* for `side` raises; the output vector is stored before the input text is
\* embedded, and the key is appended only after both
IndexToolRaising(index, table, server_name, tool_name, side) ==
    LET key == ToolKey(server_name, tool_name) IN
    IF side = "out" THEN index
    ELSE [index EXCEPT !.output_embeddings = Put(@, key, Embedding(table, key, "out"))]

\* embeddings.py 70-93: a call of index_server that ends with the exception
\* of get_embedding, raised for the `side` of the t-th tool
IndexServerRaises ==
    /\ Len(index_calls) < MaxIndexCalls
    /\ \E server_name \in IndexServers, table \in IndexOracles, side \in Sides :
       \E t \in DOMAIN IndexedTools(server_name) :
          LET tools == IndexedTools(server_name)
              before == index_server(TheIndex, table, server_name, SubSeq(tools, 1, t - 1))
              index == IndexToolRaising(before, table, server_name, tools[t], side)
              key == ToolKey(server_name, tools[t])
          IN  /\ ~AlreadyIndexed(before, key)
              /\ output_embeddings' = index.output_embeddings
              /\ input_embeddings' = index.input_embeddings
              /\ tool_keys' = index.tool_keys
              /\ embed' = table
              /\ embed_log' = embed_log
                    \o ServerCalls(TheIndex, table, server_name, SubSeq(tools, 1, t - 1))
                    \o (IF side = "out" THEN <<[key |-> key, side |-> "out"]>>
                        ELSE <<[key |-> key, side |-> "out"], [key |-> key, side |-> "in"]>>)
              /\ index_calls' = Append(index_calls, [server |-> server_name, table |-> table])
    /\ UNCHANGED found
    /\ IndexFrame

NextIndexRaising == NextIndex \/ IndexServerRaises

SpecIndexRaising == InitIndex /\ [][NextIndexRaising]_vars

NoDuplicates(seq) == Cardinality(Range(seq)) = Len(seq)

\* C32: after any index_server calls, also ones that ended with an exception
\* of get_embedding, output_embeddings, input_embeddings and tool_keys hold the
\* same keys and tool_keys holds no key twice
C32_IndexKeepsOneKeySet ==
    /\ DOMAIN output_embeddings = DOMAIN input_embeddings
    /\ DOMAIN output_embeddings = Range(tool_keys)
    /\ NoDuplicates(tool_keys)

-----------------------------------------------------------------------------
(* The API process: api.py.  Its handlers are coroutines of one event loop; *)
(* build_edges and DiscoveryEngine.discover have no await, so a rebuild and  *)
(* a discovery each run between two other requests.                          *)

\* no discover or execute request is being served
NoEngine == engine_edges = << >>

\* api.py 34-42: Registry(use_cache=True) and CapabilityGraph(use_cache=True)
\* on an empty database
InitApi == InitGraph

\* what the request handlers leave alone besides the graph and the registry
ApiFrame == UNCHANGED <<execVars, discoveryVars, translatorVars, indexVars, oracleVars>>

\* api.py 144-160: POST /servers/register
ApiRegister ==
    /\ gpc = "idle" /\ NoEngine
    /\ Register
    /\ UNCHANGED apiVars

\* api.py 163-170: DELETE /servers/{name}, for a name in registry.servers
ApiUnregister ==
    /\ gpc = "idle" /\ NoEngine
    /\ Unregister
    /\ unregistered'[1].name \in registry_servers
    /\ UNCHANGED apiVars

\* api.py 173-177 with graph.py 24-27 and 47-59: the rebuild task makes a new
\* CapabilityGraph(use_cache=False), whose edge list and index are empty, and
\* calls build_edges(registry.servers, incremental=True) on it
RebuildStart ==
    /\ gpc = "idle" /\ NoEngine
    /\ builds < MaxBuilds
    /\ LET index == index_all_servers(EmptyIndex, embed, GraphServerOrder, registry_servers) IN
          /\ output_embeddings' = index.output_embeddings
          /\ input_embeddings' = index.input_embeddings
          /\ tool_keys' = index.tool_keys
          /\ candidates' = find_candidates(index, BuildThreshold, DefaultTopK)
    /\ edges' = << >>
    /\ incremental' = TRUE
    /\ build_servers' = registry_servers
    /\ start_edges' = db_edges
    /\ validated' = {}
    /\ builds' = builds + 1
    /\ last_build' = "running"
    /\ gpc' = "validating"
    /\ judged' = << >>
    /\ UNCHANGED <<db_edges, db_last, embed>>
    /\ UNCHANGED outsideGraph

\* api.py 173-177 with graph.py 24-27 and 54: the embedding oracle raises at
\* the first operation the new graph indexes
RebuildIndexRaises ==
    /\ gpc = "idle" /\ NoEngine
    /\ builds < MaxBuilds
    /\ registry_servers /= {}
    /\ output_embeddings' = << >>
    /\ input_embeddings' = << >>
    /\ tool_keys' = << >>
    /\ candidates' = << >>
    /\ edges' = << >>
    /\ incremental' = TRUE
    /\ build_servers' = registry_servers
    /\ start_edges' = db_edges
    /\ validated' = {}
    /\ builds' = builds + 1
    /\ last_build' = "raised"
    /\ judged' = << >>
    /\ UNCHANGED <<db_edges, db_last, embed, gpc>>
    /\ UNCHANGED outsideGraph

\* api.py 214-223 and 246-289: POST /discover or /execute hands graph.edges to
\* a new DiscoveryEngine; `unregistered` keeps the unregister call that came
\* last before the request, if no register call came after it
ApiDiscover ==
    /\ gpc = "idle" /\ NoEngine
    /\ registry_servers /= {}
    /\ edges /= << >>
    /\ engine_edges' = <<[edges |-> edges, unregistered |-> unregistered]>>
    /\ UNCHANGED <<judge, found_path>>
    /\ UNCHANGED <<graphVars, registryVars>>
    /\ ApiFrame

\* api.py 223-237: the handler returns and the engine is dropped
ApiDiscoverReturns ==
    /\ engine_edges /= << >>
    /\ engine_edges' = << >>
    /\ UNCHANGED <<judge, found_path>>
    /\ UNCHANGED <<graphVars, registryVars>>
    /\ ApiFrame

\* the new graph indexes registry.servers only, so every candidate of a
\* rebuild names servers and tools that build_edges finds (graph.py 76-84)
NextApi ==
    \/ ApiRegister
    \/ ApiUnregister
    \/ RebuildStart
    \/ RebuildIndexRaises
    \/ BuildSkipStored
    \/ BuildValidate
    \/ BuildOracleRaises
    \/ BuildFinish
    \/ ApiDiscover
    \/ ApiDiscoverReturns

SpecApi == InitApi /\ [][NextApi]_vars

RebuildFinished == gpc = "idle" /\ last_build \in {"returned", "raised"}

\* C33: once a rebuild task has finished, by returning or by raising, every
\* edge stored in the table is in the in-memory graph's edge list
C33_FinishedRebuildHoldsStoredEdges ==
    RebuildFinished => Range(load_all_edges(db_edges)) \subseteq Range(edges)

\* C34: after a server was unregistered through the API, the edge list handed
\* to a DiscoveryEngine holds no edge from or to that server
C34_NoEdgeOfUnregisteredServerHandedOut ==
    (engine_edges /= << >> /\ engine_edges[1].unregistered /= << >>) =>
        \A n \in DOMAIN engine_edges[1].edges :
            /\ engine_edges[1].edges[n].source_server /= engine_edges[1].unregistered[1].name
            /\ engine_edges[1].edges[n].target_server /= engine_edges[1].unregistered[1].name

-----------------------------------------------------------------------------
(* build_edges run again on the same servers, with oracles that answer the  *)
(* same question the same way: graph.py 38-108                               *)

\* reasoning oracles that answer by a fixed table
Judges == {"strict", "lenient", "failing"}

\* graph.py 149: what the oracle `name` answers about the candidate `key`
JudgeReply(name, key) ==
    IF name = "strict"
    THEN IF key[1] = Fetcher /\ key[3] = Summarizer
         THEN EdgeOracleJson([compatibility_type |-> "direct", confidence |-> 90,
                              translation_hint |-> ""])
         ELSE EdgeOracleJson([compatibility_type |-> "incompatible", confidence |-> 10,
                              translation_hint |-> ""])
    ELSE IF name = "lenient"
    THEN IF key[3] = Notifier
         THEN EdgeOracleJson([compatibility_type |-> "translatable", confidence |-> 50,
                              translation_hint |-> "rename"])
         ELSE EdgeOracleGarbled
    ELSE IF key[1] = Summarizer THEN EdgeOracleRaise
         ELSE EdgeOracleJson([compatibility_type |-> "direct", confidence |-> 90,
                              translation_hint |-> ""])

\* the rows an earlier process left in the table
PriorRows ==
    { << >>,
      <<GraphEdge(Summarizer, <<"summarize_text">>, Notifier, <<"notify">>, "direct", 90, "")>>,
      <<GraphEdge(Notifier, <<"notify">>, Fetcher, <<"fetch_url">>, "translatable", 50, None)>> }

\* graph.py 24-36: CapabilityGraph(use_cache=True) on the table as it is
InitTwice ==
    /\ ExecIdle
    /\ db_edges \in PriorRows /\ edges = load_all_edges(db_edges)
    /\ db_last = << >> /\ gpc = "idle"
    /\ incremental = FALSE /\ build_servers = {} /\ candidates = << >>
    /\ start_edges = << >> /\ validated = {} /\ builds = 0 /\ last_build = "none"
    /\ tool_keys = << >> /\ output_embeddings = << >> /\ input_embeddings = << >>
    /\ embed \in EmbeddingOracles
    /\ judged = << >>
    /\ RegistryIdle /\ DiscoveryIdle /\ TranslatorIdle /\ IndexIdle /\ OracleIdle
    /\ engine_edges = << >> /\ judge \in Judges /\ found_path = << >>

\* the first build is any build; every later one is incremental and gets the
\* same servers
BuildAgain ==
    /\ BuildStart
    /\ builds > 0 => (incremental' /\ build_servers' = build_servers)

\* graph.py 88-99 with the oracle `judge`
JudgeValidates ==
    /\ BuildValidate
    /\ judged'[1].reply = JudgeReply(judge, judged'[1].key)

\* graph.py 88-91 with the oracle `judge`
JudgeRaises ==
    /\ BuildOracleRaises
    /\ judged'[1].reply = JudgeReply(judge, judged'[1].key)

\* the index of the one graph holds the servers of the first build only, so
\* every candidate names servers and tools that build_edges finds
NextTwice ==
    \/ BuildAgain
    \/ BuildSkipStored
    \/ JudgeValidates
    \/ JudgeRaises
    \/ BuildFinish

SpecTwice == InitTwice /\ [][NextTwice]_vars

-----------------------------------------------------------------------------
(* CapabilityGraph.find_path: graph.py 176-202 *)

\* largest max_hops handed to find_path
MaxHops == 3

Translator == <<"translator">>

PathServers == {Fetcher, Summarizer, Notifier, Translator}

\* the edges a graph may hold, in the order of its list: a two-cycle, a
\* three-cycle, a self-loop, two edges between one pair of servers
PathEdges ==
    << GraphEdge(Fetcher, <<"fetch_url">>, Fetcher, <<"fetch_url">>, "direct", 90, ""),
       GraphEdge(Fetcher, <<"fetch_url">>, Summarizer, <<"summarize_text">>, "direct", 90, ""),
       GraphEdge(Fetcher, <<"fetch_url">>, Summarizer, <<"count_words">>, "translatable", 50, ""),
       GraphEdge(Summarizer, <<"summarize_text">>, Fetcher, <<"fetch_url">>, "translatable", 50, ""),
       GraphEdge(Summarizer, <<"summarize_text">>, Notifier, <<"notify">>, "direct", 90, ""),
       GraphEdge(Notifier, <<"notify">>, Fetcher, <<"fetch_url">>, "translatable", 50, ""),
       GraphEdge(Notifier, <<"notify">>, Translator, <<"translate">>, "direct", 90, ""),
       GraphEdge(Translator, <<"translate">>, Summarizer, <<"summarize_text">>, "direct", 90, "") >>

\* the edges of PathEdges at the positions `kept`, in order
RECURSIVE Pick(_, _)
Pick(kept, n) ==
    IF n > Len(PathEdges) THEN << >>
    ELSE (IF n \in kept THEN <<PathEdges[n]>> ELSE << >>) \o Pick(kept, n + 1)

PathGraphs == {Pick(kept, 1) : kept \in SUBSET DOMAIN PathEdges}

\* graph.py 176-180: get_edges_from(server_name)
get_edges_from(edge_list, server_name) ==
    SelectSeq(edge_list, LAMBDA e : e.source_server = server_name)

RECURSIVE SearchFrom(_, _, _, _, _)
RECURSIVE VisitEdges(_, _, _, _, _, _, _)

\* graph.py 196-201: the for loop over the edges `out` that leave the server
\* popped with `path`
VisitEdges(edge_list, target_server, max_hops, queue, visited, path, out) ==
    IF out = << >> THEN SearchFrom(edge_list, target_server, max_hops, queue, visited)
    ELSE LET edge == Head(out) IN
         IF edge.target_server = target_server THEN Append(path, edge)
         ELSE IF edge.target_server \notin visited /\ Len(path) < max_hops
         THEN VisitEdges(edge_list, target_server, max_hops,
                         Append(queue, [server |-> edge.target_server,
                                        path |-> Append(path, edge)]),
                         visited \cup {edge.target_server}, path, Tail(out))
         ELSE VisitEdges(edge_list, target_server, max_hops, queue, visited, path, Tail(out))

\* graph.py 194-202: the while loop over the queue
SearchFrom(edge_list, target_server, max_hops, queue, visited) ==
    IF queue = << >> THEN << >>
    ELSE VisitEdges(edge_list, target_server, max_hops, Tail(queue), visited,
                    Head(queue).path, get_edges_from(edge_list, Head(queue).server))

\* a find_path without the test for source_server == target_server
find_path_unguarded(edge_list, source_server, target_server, max_hops) ==
    SearchFrom(edge_list, target_server, max_hops,
               <<[server |-> source_server, path |-> << >>]>>, {source_server})

\* CapabilityGraph.find_path
find_path(edge_list, source_server, target_server, max_hops) ==
    IF source_server = target_server THEN << >>
    ELSE SearchFrom(edge_list, target_server, max_hops,
                    <<[server |-> source_server, path |-> << >>]>>, {source_server})

\* a graph whose edge list is one of PathGraphs
InitPath ==
    /\ ExecIdle
    /\ db_edges = << >> /\ db_last = << >> /\ edges \in PathGraphs /\ gpc = "idle"
    /\ incremental = FALSE /\ build_servers = {} /\ candidates = << >>
    /\ start_edges = << >> /\ validated = {} /\ builds = 0 /\ last_build = "none"
    /\ tool_keys = << >> /\ output_embeddings = << >> /\ input_embeddings = << >>
    /\ embed = "A" /\ judged = << >>
    /\ RegistryIdle /\ DiscoveryIdle /\ TranslatorIdle /\ OthersIdle

\* graph.py 188-202: one call of find_path
FindPath ==
    /\ \E source_server \in PathServers, target_server \in PathServers, max_hops \in 1..MaxHops :
          found_path' = <<[source |-> source_server, target |-> target_server,
                           max_hops |-> max_hops,
                           result |-> find_path(edges, source_server, target_server, max_hops)]>>
    /\ UNCHANGED <<engine_edges, judge>>
    /\ UNCHANGED <<execVars, graphVars, registryVars, discoveryVars, translatorVars,
                   indexVars, oracleVars>>

NextPath == FindPath

SpecPath == InitPath /\ [][NextPath]_vars

\* the servers a chain of edges of the list leads to from the servers `from`
RECURSIVE ReachedFrom(_, _)
ReachedFrom(edge_list, from) ==
    LET more == from \cup {edge_list[n].target_server :
                             n \in {m \in DOMAIN edge_list : edge_list[m].source_server \in from}}
    IN  IF more = from THEN from ELSE ReachedFrom(edge_list, more)

\* some chain of one or more edges leads from source to target
ChainExists(edge_list, source_server, target_server) ==
    \E n \in DOMAIN edge_list :
        /\ edge_list[n].source_server = source_server
        /\ target_server \in ReachedFrom(edge_list, {edge_list[n].target_server})

PathCall == found_path[1]

\* C37: find_path returns [] or a chain of edges of the list: the first
\* leaves source, each enters the server the next one leaves, the last enters
\* target, and no server is entered twice nor is source entered; it returns
\* [] when source is target and when no chain leads from source to target
C37_PathIsSimpleChainOfStoredEdges ==
    found_path /= << >> =>
        LET r == PathCall.result IN
        /\ PathCall.source = PathCall.target => r = << >>
        /\ ~ChainExists(edges, PathCall.source, PathCall.target) => r = << >>
        /\ r /= << >> =>
              /\ \A n \in DOMAIN r : r[n] \in Range(edges)
              /\ r[1].source_server = PathCall.source
              /\ r[Len(r)].target_server = PathCall.target
              /\ \A n \in 1..(Len(r) - 1) : r[n].target_server = r[n + 1].source_server
              /\ \A m, n \in DOMAIN r : m /= n => r[m].target_server /= r[n].target_server
              /\ \A n \in DOMAIN r : r[n].target_server /= PathCall.source

\* a path of three edges was found in a list where the source lies on a
\* cycle and has a self-loop
C37_Witness ==
    /\ found_path /= << >>
    /\ Len(PathCall.result) = 3
    /\ ChainExists(edges, PathCall.source, PathCall.source)
    /\ \E n \in DOMAIN edges : edges[n].source_server = PathCall.source
                                /\ edges[n].target_server = PathCall.source

\* C38: a non-empty path returned by find_path has at most max_hops edges
C38_PathHasAtMostMaxHopsEdges ==
    (found_path /= << >> /\ PathCall.result /= << >>) =>
        Len(PathCall.result) <= PathCall.max_hops

====
